---- MODULE Spec2Model ----
(***************************************************************************)
(* A model of solo (SSolar-GOA): the Geometry and Atmosphere records, the  *)
(* optical-depth / transmittance engine and the radtran pipeline.          *)
(*                                                                         *)
(* The library is a set of functions over immutable records, so the state  *)
(* is one call and what it leaves behind: the call being made and its      *)
(* arguments (call), the Geometry and the Atmosphere the program holds     *)
(* (geo, atm), the exception raised or "ok" (ret) and the value returned   *)
(* (out).  Init draws the call, an action runs it.                         *)
(*                                                                         *)
(* Numbers.  An input quantity is a fixed-point integer: n stands for      *)
(* n / 1000 (so rho = 200 is 0.2 and day = 152000 is day 152).  An angle   *)
(* in radians is stored in units of pi / 360000, an angle in degrees in    *)
(* units of 1 / 1000 degree, so that np.radians doubles the number and     *)
(* np.pi is 360000.  Comparisons are made on these integers.               *)
(*                                                                         *)
(* Python 3 semantics are modelled: comparing or subtracting a list and a  *)
(* number raises TypeError, while the numpy functions accept any           *)
(* array-like.                                                             *)
(***************************************************************************)
EXTENDS Integers, Sequences, FiniteSets, TLC

VARIABLES call, geo, atm, ret, out, proc, abscoef

vars == <<call, geo, atm, ret, out, proc, abscoef>>

(***************************************************************************)
(* Bounds of the model.                                                    *)
(***************************************************************************)
\* the longest vector of scenarios
MaxScen == 2

\* the longest vector of wavelengths
MaxWvln == 2

(***************************************************************************)
(* Array-likes.  kind is "scalar" (a Python or numpy number), "list" (a    *)
(* Python list) or "array" (a numpy ndarray); shape is np.shape; data maps *)
(* every index tuple to the element.                                       *)
(***************************************************************************)
\* the elements of an array are computed once, when the array is made
Stored(data) == IF data = data THEN data ELSE <<>>

RECURSIVE Indices(_)
Indices(shape) ==
    IF shape = <<>> THEN {<<>>}
    ELSE {<<i>> \o r : i \in 1..shape[1], r \in Indices(Tail(shape))}

Scalar(v) == [kind |-> "scalar", shape |-> <<>>, data |-> [i \in {<<>>} |-> v]]

Vector(kind, s) ==
    [kind |-> kind, shape |-> <<Len(s)>>,
     data |-> [i \in {<<j>> : j \in 1..Len(s)} |-> s[i[1]]]]

\* an array-like of the given shape with every element v
Full(kind, shape, v) ==
    [kind |-> IF shape = <<>> THEN "scalar" ELSE kind, shape |-> shape,
     data |-> [i \in Indices(shape) |-> v]]

\* None, for an optional argument that is not given
None == [kind |-> "None", shape |-> <<>>, data |-> <<>>]

IsNone(x) == x.kind = "None"

\* the kind of what a numpy function returns for the argument x
NpKind(x) == IF x.kind = "scalar" THEN "scalar" ELSE "array"

\* a numpy function applied to every element
NpMap(F(_), x) ==
    [kind |-> NpKind(x), shape |-> x.shape,
     data |-> Stored([i \in DOMAIN x.data |-> F(x.data[i])])]

\* np.any(P(x)) for an elementwise test P
NpAny(P(_), x) == \E i \in DOMAIN x.data : P(x.data[i])

np_atleast_1d(x) ==
    IF x.shape = <<>> THEN Vector("array", <<x.data[<<>>]>>)
    ELSE [x EXCEPT !.kind = "array"]

Abs(n) == IF n < 0 THEN -n ELSE n

\* the length of a 0- or 1-dimensional argument: 1 for a scalar
LengthOf(x) == IF x.shape = <<>> THEN 1 ELSE x.shape[1]

(***************************************************************************)
(* Outcomes: "ok", or the exception class with its message.                *)
(***************************************************************************)
Raise(exc, msg) == [st |-> exc, msg |-> msg]

Pending == [st |-> "pending", msg |-> ""]

Ok == [st |-> "ok", msg |-> ""]

NoValue == <<>>

NoGeometry == [st |-> "none"]

NoAtmosphere == [st |-> "none"]

\* no command is running
NoProcess == [pc |-> "none"]

(***************************************************************************)
(* Geometry (solo/api/Geometry.py)                                         *)
(***************************************************************************)
\* np.pi in angle units
Pi == 360000

\* np.radians: d thousandths of a degree are 2 d units of pi / 360000
Radians(d) == 2 * d

np_radians(x) == NpMap(Radians, x)

\* np.cos, in thousandths, of an angle in units of pi / 360000; the model
\* draws its zenith angles from the multiples of 30 degrees and its days
\* from 1, 4, 152, 186 and 366, whose day angles and their doubles follow
Cos(a) ==
    CASE a = 0 -> 1000
      [] a = 60000 -> 866
      [] a = 120000 -> 500
      [] a = 180000 -> 0
      [] a = 240000 -> -500
      [] a = 300000 -> -866
      [] a = 360000 -> -1000
      [] a = 5918 -> 999
      [] a = 11836 -> 995
      [] a = 297863 -> -857
      [] a = 595726 -> 467
      [] a = 364932 -> -999
      [] a = 729864 -> 996
      [] a = 720000 -> 1000
      [] a = 1440000 -> 1000

\* np.sin, in thousandths, of the day angles and their doubles
Sin(a) ==
    CASE a = 0 -> 0
      [] a = 5918 -> 52
      [] a = 11836 -> 103
      [] a = 297863 -> 516
      [] a = 595726 -> -884
      [] a = 364932 -> -43
      [] a = 729864 -> 86
      [] a = 720000 -> 0
      [] a = 1440000 -> 0

np_cos(x) == NpMap(Cos, x)

\* a list operand of a Python comparison or subtraction with a number
IsList(x) == x.kind = "list"

\* a slip: the cosine taken of the zenith angle as it was before np.radians
Geometry_instance_CosOfDegrees(day, lat, lon, sza) ==
    [st |-> "ok", msg |-> "", day |-> day, lat |-> lat, lon |-> lon, sza |-> sza,
     mu0 |-> NpMap(LAMBDA a : Cos(a \div 2), sza)]

\* the instance: mu0 is computed, the other fields are stored
Geometry_instance(day, lat, lon, sza) ==
    [st |-> "ok", msg |-> "", day |-> day, lat |-> lat, lon |-> lon, sza |-> sza,
     mu0 |-> np_cos(sza)]

Geometry_new(lat, lon, sza, day, mode) ==
    LET set_shapes == {x.shape : x \in {lat, lon, sza, day}}
        shp == CHOOSE s \in set_shapes : TRUE
        deg == mode = "deg"
        lat1 == IF deg THEN np_radians(lat) ELSE lat
        lon1 == IF deg THEN np_radians(lon) ELSE lon
        sza1 == IF deg THEN np_radians(sza) ELSE sza
    IN  IF Cardinality(set_shapes) > 1
          THEN Raise("AttributeError", "size mismatch among input arguments")
        ELSE IF Len(shp) > 1
          THEN Raise("AttributeError", "input arguments must be 0- or 1-dimensional")
        ELSE IF mode \notin {"deg", "rad"}
          THEN Raise("ValueError", "invalid value for 'mode'")
        ELSE IF NpAny(LAMBDA v : 2 * Abs(v) > Pi, lat1)
          THEN Raise("ValueError", "latitude values out of range")
        ELSE IF NpAny(LAMBDA v : Abs(v) > Pi, lon1)
          THEN Raise("ValueError", "longitude values out of range")
        ELSE IF IsList(sza1)
          THEN Raise("TypeError", "unsupported operand type(s) for -: 'list' and 'float'")
        ELSE IF NpAny(LAMBDA v : Abs(2 * v - Pi) > Pi, sza1)
          THEN Raise("ValueError", "solar zenith angle values out of range")
        ELSE IF IsList(day)
          THEN Raise("TypeError", "'<' not supported between instances of 'list' and 'int'")
        ELSE IF NpAny(LAMBDA v : v < 1000, day) \/ NpAny(LAMBDA v : v > 366000, day)
          THEN Raise("ValueError", "Julian days out of range")
        ELSE Geometry_instance(day, lat1, lon1, sza1)

ngeo(self) == IF self.mu0.shape = <<>> THEN 1 ELSE self.mu0.shape[1]

\* 2 * np.pi * (day - 1) / 365, to the nearest unit of pi / 360000
day_angle(self) == NpMap(LAMBDA d : (720 * (d - 1000) + 182) \div 365, self.day)

\* np.squeeze: the axes of length 1 removed
np_squeeze(x) ==
    LET n == Len(x.shape)
        keep == SelectSeq([i \in 1..n |-> i], LAMBDA i : x.shape[i] # 1)
        s == [j \in 1..Len(keep) |-> x.shape[keep[j]]]
    IN  [kind |-> x.kind, shape |-> s,
         data |-> Stored([idx \in Indices(s) |->
                    x.data[[i \in 1..n |-> IF x.shape[i] = 1 THEN 1
                            ELSE idx[CHOOSE j \in 1..Len(keep) : keep[j] = i]]]])]

\* x[None, :, None] of a 1-dimensional array
NewAxes(x) ==
    [kind |-> "array", shape |-> <<1, x.shape[1], 1>>,
     data |-> Stored([i \in Indices(<<1, x.shape[1], 1>>) |-> x.data[<<i[2]>>]])]

\* a slip: the coefficients of the cosine and of the sine exchanged
GeoFactor_SineFirst(a) ==
    1000110 + (1280 * Cos(a) + 34220 * Sin(a) + 719 * Cos(2 * a) + 77 * Sin(2 * a)) \div 1000

\* the Fourier series of the factor, in millionths, from cosines and sines
\* in thousandths
GeoFactor(a) ==
    1000110 + (34220 * Cos(a) + 1280 * Sin(a) + 719 * Cos(2 * a) + 77 * Sin(2 * a)) \div 1000

geometric_factor(self, squeeze) ==
    IF squeeze \notin {"True", "False"} THEN Raise("TypeError", "'squeeze' must be a bool")
    ELSE LET geo_factor == NpMap(GeoFactor, day_angle(self))
         IN  [st |-> "ok", msg |-> "",
              val |-> IF squeeze = "True" THEN np_squeeze(geo_factor)
                      ELSE NewAxes(np_atleast_1d(geo_factor))]

(***************************************************************************)
(* Atmosphere (src/solo/api/Atmosphere.py)                                 *)
(***************************************************************************)
DEFAULT_P == 1013000

DEFAULT_W0 == 900

DEFAULT_G == 850

\* a slip: the optional arguments left out of the shape check
Atmosphere_items_Mandatory(p, rho, o3, h2o, alpha, beta, w0, g) ==
    {p, rho, o3, h2o, alpha, beta}

\* the arguments whose shapes are compared
Atmosphere_items(p, rho, o3, h2o, alpha, beta, w0, g) ==
    {p, rho, o3, h2o, alpha, beta} \cup {x \in {w0, g} : ~IsNone(x)}

Atmosphere_new(p, rho, o3, h2o, alpha, beta, w0, g) ==
    LET items == Atmosphere_items(p, rho, o3, h2o, alpha, beta, w0, g)
        set_shapes == {x.shape : x \in items}
        shp == CHOOSE s \in set_shapes : TRUE
        p1 == np_atleast_1d(p)
        rho1 == np_atleast_1d(rho)
        o31 == np_atleast_1d(o3)
        h2o1 == np_atleast_1d(h2o)
        alpha1 == np_atleast_1d(alpha)
        beta1 == np_atleast_1d(beta)
        w01 == IF IsNone(w0) THEN Full("array", shp, DEFAULT_W0) ELSE w0
        g1 == IF IsNone(g) THEN Full("array", shp, DEFAULT_G) ELSE g
    IN  IF Cardinality(set_shapes) > 1
          THEN Raise("AttributeError", "size mismatch among input arguments")
        ELSE IF Len(shp) > 1
          THEN Raise("AttributeError", "input arguments must be 0- or 1-dimensional")
        ELSE IF NpAny(LAMBDA v : v < 0, p1)
          THEN Raise("ValueError", "pressure out of range")
        ELSE IF NpAny(LAMBDA v : v < 0, rho1) \/ NpAny(LAMBDA v : v > 1000, rho1)
          THEN Raise("ValueError", "albedo out of range")
        ELSE IF NpAny(LAMBDA v : v < 0, o31)
          THEN Raise("ValueError", "ozone out of range")
        ELSE IF NpAny(LAMBDA v : v < 0, h2o1)
          THEN Raise("ValueError", "water vapour out of range")
        ELSE IF NpAny(LAMBDA v : v < 0, alpha1)
          THEN Raise("ValueError", "Angstrom alpha out of range")
        ELSE IF NpAny(LAMBDA v : v < 0, beta1)
          THEN Raise("ValueError", "Angstrom beta out of range")
        ELSE IF ~IsNone(w0) /\ IsList(w0)
          THEN Raise("TypeError", "'<' not supported between instances of 'list' and 'int'")
        ELSE IF ~IsNone(w0) /\ (NpAny(LAMBDA v : v < 0, w0) \/ NpAny(LAMBDA v : v > 1000, w0))
          THEN Raise("ValueError", "single scattering albedo out of range")
        ELSE IF ~IsNone(g) /\ NpAny(LAMBDA v : Abs(v) > 1000, g)
          THEN Raise("ValueError", "asymmetry parameter out of range")
        ELSE [st |-> "ok", msg |-> "", p |-> p1, rho |-> rho1, o3 |-> o31,
              h2o |-> h2o1, alpha |-> alpha1, beta |-> beta1,
              w0 |-> np_atleast_1d(w01), g |-> np_atleast_1d(g1)]

nscen(self) == self.p.shape[1]

(***************************************************************************)
(* Real arithmetic.  The formulas of the engine are evaluated in the prime *)
(* field Z_Modulus: sums, differences, products and quotients are exact    *)
(* there, so two formulas that are equal as rational expressions give the  *)
(* same number and two that are not differ but for a coincidence.  exp,    *)
(* sqrt and ** are fixed functions on the field that keep exp(0) = 1,      *)
(* sqrt(0) = 0, sqrt(1) = 1, 1 ** y = 1 and 0 ** y = 0 for y # 0; x ** n   *)
(* is the exact power for n in 0..4.  A division by zero gives NonFinite   *)
(* (inf or nan), which every later operation keeps.                        *)
(***************************************************************************)
Modulus == 10000 + 7

NonFinite == 0 - 1

IsFinite(a) == a # NonFinite

FAdd(a, b) == IF a = NonFinite \/ b = NonFinite THEN NonFinite ELSE (a + b) % Modulus

FSub(a, b) == IF a = NonFinite \/ b = NonFinite THEN NonFinite ELSE (a - b) % Modulus

FMul(a, b) == IF a = NonFinite \/ b = NonFinite THEN NonFinite ELSE (a * b) % Modulus

FNeg(a) == FSub(0, a)

RECURSIVE FPower(_, _)
\* a to the natural power n, in the field
FPower(a, n) ==
    IF n = 0 THEN 1
    ELSE LET h == FPower(a, n \div 2)
             h2 == (h * h) % Modulus
         IN  IF n % 2 = 0 THEN h2 ELSE (h2 * a) % Modulus

FDiv(a, b) ==
    IF a = NonFinite \/ b = NonFinite \/ b = 0 THEN NonFinite
    ELSE (a * FPower(b, Modulus - 2)) % Modulus

\* the decimal n / d
Dec(n, d) == FDiv(n % Modulus, d % Modulus)

\* the real number a fixed-point input stands for
Real(v) == Dec(v, 1000)

\* np.exp
FExp(a) == IF a = NonFinite THEN NonFinite ELSE (3 * FPower(a, 3) + 5 * a + 1) % Modulus

\* np.sqrt
FSqrt(a) == IF a = NonFinite THEN NonFinite ELSE (a * ((7 * a * a - 6) % Modulus)) % Modulus

\* a ** b
FPow(a, b) ==
    IF a = NonFinite \/ b = NonFinite THEN NonFinite
    ELSE IF b <= 4 THEN FPower(a, b)
    ELSE IF a = 0 THEN 0
    ELSE LET k == (a + 3 * b + 11) % Modulus
             h == (1 + (b - 1) * k) % Modulus
         IN  (1 + ((a - 1) * b % Modulus) * h) % Modulus

(***************************************************************************)
(* numpy arrays: broadcasting, x[:, None], elementwise arithmetic          *)
(***************************************************************************)
Max(a, b) == IF a >= b THEN a ELSE b

\* the shape s as one of n dimensions
Pad(s, n) == [i \in 1..n |-> IF i <= n - Len(s) THEN 1 ELSE s[i - (n - Len(s))]]

\* the shape two operands broadcast to
BroadcastShape(s1, s2) ==
    LET n == Max(Len(s1), Len(s2))
        a == Pad(s1, n)
        b == Pad(s2, n)
    IN  [i \in 1..n |-> IF a[i] = 1 THEN b[i] ELSE a[i]]

\* the element of x that index idx of the broadcast result reads
At(x, idx) ==
    LET k == Len(idx) - Len(x.shape)
    IN  x.data[[i \in 1..Len(x.shape) |-> IF x.shape[i] = 1 THEN 1 ELSE idx[i + k]]]

Array(shape, data) == [kind |-> "array", shape |-> shape, data |-> Stored(data)]

\* x[:, None] of a 1-dimensional array
NewAxis(x) ==
    Array(<<x.shape[1], 1>>, [i \in Indices(<<x.shape[1], 1>>) |-> x.data[<<i[1]>>]])

\* np.asarray of fixed-point numbers, as reals
AsReal(x) == Array(x.shape, [i \in DOMAIN x.data |-> Real(x.data[i])])

\* a Python float
Const(a) == Array(<<>>, [i \in {<<>>} |-> a])

\* F applied element by element
Map1(F(_), x) == Array(x.shape, [i \in DOMAIN x.data |-> F(x.data[i])])

\* F applied element by element to operands that are broadcast together
Map2(F(_, _), x, y) ==
    LET s == BroadcastShape(x.shape, y.shape)
    IN  Array(s, [i \in Indices(s) |-> F(At(x, i), At(y, i))])

Map3(F(_, _, _), x, y, z) ==
    LET s == BroadcastShape(BroadcastShape(x.shape, y.shape), z.shape)
    IN  Array(s, [i \in Indices(s) |-> F(At(x, i), At(y, i), At(z, i))])

Map4(F(_, _, _, _), x, y, z, w) ==
    LET s == BroadcastShape(BroadcastShape(BroadcastShape(x.shape, y.shape), z.shape),
                            w.shape)
    IN  Array(s, [i \in Indices(s) |-> F(At(x, i), At(y, i), At(z, i), At(w, i))])

Add(x, y) == Map2(FAdd, x, y)

Sub(x, y) == Map2(FSub, x, y)

Mul(x, y) == Map2(FMul, x, y)

Div(x, y) == Map2(FDiv, x, y)

\* the empty tuple ()
EmptyTuple == [kind |-> "tuple", shape |-> <<0>>, data |-> <<>>]

Return(val) == [st |-> "ok", msg |-> "", val |-> val]

\* isinstance(x, bool): the flags are "True", "False" or the text of another value
IsBool(x) == x \in {"True", "False"}

(***************************************************************************)
(* The table of molecular absorption coefficients (dat/abscoef.dat, loaded *)
(* at Atmosphere.py 36-39).  The data file is replaced by a table of four  *)
(* reference wavelengths between 300 and 2600 nm; the water exponent is    *)
(* zero at both ends, as it is where the water vapour does not absorb.     *)
(***************************************************************************)
ABSCOEF ==
    [wvln        |-> <<300000, 700000, 1000000, 2600000>>,
     water_coef  |-> <<0, Dec(2, 100), Dec(5, 10), Dec(3, 1)>>,
     water_exp   |-> <<0, Dec(5, 10), Dec(6, 10), 0>>,
     ozone_xsec  |-> <<Dec(4, 10), Dec(1, 10), 0, 0>>,
     oxygen_coef |-> <<0, Dec(1, 1000), Dec(3, 1000), 0>>]

\* the module-level table once loaded: ABSCOEF.flags.writeable = False
Loaded == [table |-> ABSCOEF, writeable |-> FALSE]

\* np.interp at one point: linear between the reference points, flat outside
Interp(x, xp, fp) ==
    IF x <= xp[1] THEN fp[1]
    ELSE IF x >= xp[Len(xp)] THEN fp[Len(xp)]
    ELSE LET i == CHOOSE j \in 1..(Len(xp) - 1) : xp[j] <= x /\ x < xp[j + 1]
         IN  FAdd(fp[i], FMul(FSub(fp[i + 1], fp[i]), Dec(x - xp[i], xp[i + 1] - xp[i])))

np_interp(x, xp, fp) == Array(x.shape, [i \in DOMAIN x.data |-> Interp(x.data[i], xp, fp)])

(***************************************************************************)
(* Atmosphere: optical depths.  A method returns Raise(...) or Return of   *)
(* the tuple of its results (a method that returns one bare array returns  *)
(* the tuple of that array here).  numpy evaluates a formula element by    *)
(* element over the broadcast of the shapes of its operands: the formula   *)
(* is written once, on numbers, and mapped over the operands.              *)
(***************************************************************************)
\* self.<field>[:, None], as reals
Field(x) == NewAxis(AsReal(x))

\* Bates' formula at pressure p and wavelength w
RayleighDepth(p, w) ==
    LET c == <<Dec(1172594, 10000), Dec(0 - 13215, 10000),
               Dec(320, 1000000), Dec(0 - 76, 1000000)>>
        wvln_um2 == FPow(w, 2)
        wvln_um4 == FPow(wvln_um2, 2)
        div == FAdd(FAdd(FAdd(FMul(c[1], wvln_um4), FMul(c[2], wvln_um2)), c[3]),
                    FDiv(c[4], wvln_um4))
    IN  FDiv(FDiv(p, Real(DEFAULT_P)), div)

RayleighAlbedo(tau) ==
    FDiv(FMul(tau, FSub(1, FExp(FMul(FNeg(2), tau)))), FAdd(2, tau))

tau_rayleigh(self, wvln_um, return_albedo) ==
    IF Len(wvln_um.shape) > 1
    THEN Raise("ValueError", "'wvln_um' must be 0- or 1-dimensional")
    ELSE IF ~IsBool(return_albedo)
    THEN Raise("TypeError", "'return_albedo' must be a bool")
    ELSE LET wvln == AsReal(np_atleast_1d(wvln_um))
             pressure == Field(self.p)
             tau == Map2(RayleighDepth, pressure, wvln)
         IN  Return(IF return_albedo = "True" THEN <<tau, Map1(RayleighAlbedo, tau)>>
                    ELSE <<tau>>)

\* Angstrom's formula
AerosolDepth(beta, w, alpha) == FDiv(beta, FPow(w, alpha))

\* g is (1 - self.g) * self.w0
AerosolAlbedo(g, tau) ==
    FMul(FDiv(FMul(g, tau), FAdd(2, FMul(g, tau))),
         FAdd(1, FExp(FMul(FNeg(g), tau))))

tau_aerosols(self, wvln_um, return_albedo) ==
    IF Len(wvln_um.shape) > 1
    THEN Raise("ValueError", "'wvln_um' must be 0- or 1-dimensional")
    ELSE IF ~IsBool(return_albedo)
    THEN Raise("TypeError", "'return_albedo' must be a bool")
    ELSE LET wvln == AsReal(np_atleast_1d(wvln_um))
             tau == Map3(AerosolDepth, Field(self.beta), wvln, Field(self.alpha))
             g == NewAxis(Mul(Sub(Const(1), AsReal(self.g)), AsReal(self.w0)))
         IN  Return(IF return_albedo = "True" THEN <<tau, Map2(AerosolAlbedo, g, tau)>>
                    ELSE <<tau>>)

(***************************************************************************)
(* Atmosphere: transmittances                                              *)
(***************************************************************************)
\* a slip: the test made for an Atmosphere of one scenario too
Mu0Mismatch_EveryScenarioCount(self, mu0) ==
    np_atleast_1d(mu0).shape[1] \notin {1, nscen(self)}

\* the scenario count test on mu0, made after mu0 = np.atleast_1d(mu0)[:, None]
Mu0Mismatch(self, mu0) ==
    nscen(self) # 1 /\ np_atleast_1d(mu0).shape[1] \notin {1, nscen(self)}

Mu0Error == Raise("IndexError", "mismatch in shapes of 'mu0' and the Atmosphere instance")

Mu0Dimensions == Raise("ValueError", "'mu0' must be 0- or 1-dimensional")

\* np.exp(-1.0 * tau / mu0)
Direct(tau, mu0) == FExp(FDiv(FMul(FNeg(1), tau), mu0))

\* Sobolev's formula
RayleighGlobal(tau, mu0, tdir) ==
    LET c == <<Dec(2, 3), Dec(4, 3)>>
    IN  FDiv(FAdd(FAdd(c[1], mu0), FMul(FSub(c[1], mu0), tdir)), FAdd(c[2], tau))

\* a slip: the diffuse transmittance as direct minus global
trn_rayleigh_out_DiffuseReversed(out_tau, mu0, return_albedo) ==
    IF out_tau.st # "ok" THEN out_tau
    ELSE LET tau == out_tau.val[1]
             salb == IF return_albedo = "True" THEN <<out_tau.val[2]>> ELSE <<>>
             tdir == Map2(Direct, tau, mu0)
             tglb == Map3(RayleighGlobal, tau, mu0, tdir)
         IN  Return(<<tglb, tdir, Sub(tdir, tglb)>> \o salb)

\* trn_rayleigh once mu0 is checked: out is what tau_rayleigh returns
trn_rayleigh_out(out_tau, mu0, return_albedo) ==
    IF out_tau.st # "ok" THEN out_tau
    ELSE LET tau == out_tau.val[1]
             salb == IF return_albedo = "True" THEN <<out_tau.val[2]>> ELSE <<>>
             tdir == Map2(Direct, tau, mu0)
             tglb == Map3(RayleighGlobal, tau, mu0, tdir)
             tdif == Sub(tglb, tdir)
         IN  Return(<<tglb, tdir, tdif>> \o salb)

trn_rayleigh(self, wvln_um, mu0, return_albedo) ==
    IF Len(mu0.shape) > 1 THEN Mu0Dimensions
    ELSE IF Mu0Mismatch(self, mu0) THEN Mu0Error
    ELSE trn_rayleigh_out(tau_rayleigh(self, wvln_um, return_albedo),
                          Field(np_atleast_1d(mu0)), return_albedo)

\* Ambartsumian's formula, from the direct transmittance
AerosolGlobal(tdir, w0, g) ==
    LET ak == FSqrt(FMul(FSub(1, w0), FSub(1, FMul(w0, g))))
        r0 == FDiv(FAdd(FSub(ak, 1), w0), FSub(FAdd(ak, 1), w0))
        tdir_k == FPow(tdir, ak)
    IN  FDiv(FMul(FSub(1, FPow(r0, 2)), tdir_k), FSub(1, FPow(FMul(r0, tdir_k), 2)))

\* trn_aerosols once its arguments are checked: out_aer is what tau_aerosols
\* returns and out_ray what tau_rayleigh does, called when coupling is True
trn_aerosols_out(self, out_aer, out_ray, mu0, return_albedo, coupling) ==
    IF out_aer.st # "ok" THEN out_aer
    ELSE IF coupling = "True" /\ out_ray.st # "ok" THEN out_ray
    ELSE LET tau_aer == out_aer.val[1]
             saer == IF return_albedo = "True" THEN out_aer.val[2] ELSE EmptyTuple
             tau_ray == out_ray.val[1]
             sray == IF return_albedo = "True" THEN out_ray.val[2] ELSE EmptyTuple
             tau == IF coupling = "True" THEN Add(tau_ray, tau_aer) ELSE tau_aer
             salb == IF coupling # "True" THEN saer
                     ELSE IF return_albedo = "True" THEN Add(sray, saer)
                     ELSE EmptyTuple
             g == IF coupling = "True"
                  THEN Div(Mul(tau_aer, Field(self.g)), tau)
                  ELSE Field(self.g)
             w0 == IF coupling = "True"
                   THEN Div(Add(tau_ray, Mul(Field(self.w0), tau_aer)), tau)
                   ELSE Field(self.w0)
             tdir == Map2(Direct, tau, mu0)
             tglb == Map3(AerosolGlobal, tdir, w0, g)
             tdif == Sub(tglb, tdir)
         IN  Return(<<tglb, tdir, tdif, salb>>)

trn_aerosols(self, wvln_um, mu0, return_albedo, coupling) ==
    IF ~IsBool(coupling) THEN Raise("TypeError", "'coupling' must be a bool")
    ELSE IF Len(mu0.shape) > 1 THEN Mu0Dimensions
    ELSE IF Mu0Mismatch(self, mu0) THEN Mu0Error
    ELSE trn_aerosols_out(self, tau_aerosols(self, wvln_um, return_albedo),
                          tau_rayleigh(self, wvln_um, return_albedo),
                          Field(np_atleast_1d(mu0)), return_albedo, coupling)

\* a slip: everything that trn_aerosols returns passed on
trn_mixture_coupled_FourAlways(out_mix, return_albedo) ==
    IF out_mix.st # "ok" THEN out_mix ELSE Return(out_mix.val)

\* the coupled mixture, from what trn_aerosols returns with coupling
trn_mixture_coupled(out_mix, return_albedo) ==
    IF out_mix.st # "ok" THEN out_mix
    ELSE Return(SubSeq(out_mix.val, 1, 3)
                \o (IF return_albedo = "True" THEN <<out_mix.val[4]>> ELSE <<>>))

\* a slip: the direct transmittance from the global Rayleigh transmittance
trn_mixture_product_DirectOfGlobal(out_ray, out_aer, return_albedo) ==
    IF out_ray.st # "ok" THEN out_ray
    ELSE IF out_aer.st # "ok" THEN out_aer
    ELSE LET tglb == Mul(out_ray.val[1], out_aer.val[1])
             tdir == Mul(out_ray.val[1], out_aer.val[2])
             salb == IF return_albedo = "True"
                     THEN <<Add(out_ray.val[4], out_aer.val[4])>> ELSE <<>>
         IN  Return(<<tglb, tdir, Sub(tglb, tdir)>> \o salb)

\* the mixture without coupling, from what trn_rayleigh and trn_aerosols return
trn_mixture_product(out_ray, out_aer, return_albedo) ==
    IF out_ray.st # "ok" THEN out_ray
    ELSE IF out_aer.st # "ok" THEN out_aer
    ELSE LET tglb == Mul(out_ray.val[1], out_aer.val[1])
             tdir == Mul(out_ray.val[2], out_aer.val[2])
             tdif == Sub(tglb, tdir)
             salb == IF return_albedo = "True"
                     THEN <<Add(out_ray.val[4], out_aer.val[4])>> ELSE <<>>
         IN  Return(<<tglb, tdir, tdif>> \o salb)

trn_mixture(self, wvln_um, mu0, return_albedo, coupling) ==
    IF ~IsBool(coupling) THEN Raise("TypeError", "'coupling' must be a bool")
    ELSE IF coupling = "True"
    THEN trn_mixture_coupled(trn_aerosols(self, wvln_um, mu0, return_albedo, "True"),
                             return_albedo)
    ELSE trn_mixture_product(trn_rayleigh(self, wvln_um, mu0, return_albedo),
                             trn_aerosols(self, wvln_um, mu0, return_albedo, "False"),
                             return_albedo)

(***************************************************************************)
(* Atmosphere: gas transmittances                                          *)
(***************************************************************************)
\* Loschmidt's number, 2.687E19
LOSCHMIDT == FMul(Dec(2687, 1000), FPower(10, 19))

\* 0.209 * 173200
OXYGEN_PATH == Dec(361988, 10)

OXYGEN_EXP == Dec(5641, 10000)

WvlnDimensions == Raise("ValueError", "'wvln' must be 0- or 1-dimensional")

\* a slip: no guard for the exponent 0
WaterTrn_Unguarded(k, a, path, mu0) ==
    FExp(FNeg(FPow(FDiv(FMul(k, path), mu0), a)))

\* np.where(np.isclose(a, 0.0), 1.0, np.exp(-(k * L / mu0)**a)); the
\* tolerance of np.isclose, 1e-8, is below what the table holds
WaterTrn(k, a, path, mu0) ==
    IF a = 0 THEN 1 ELSE FExp(FNeg(FPow(FDiv(FMul(k, path), mu0), a)))

trn_water(self, wvln, mu0) ==
    IF Len(wvln.shape) > 1 THEN WvlnDimensions
    ELSE IF Len(mu0.shape) > 1 THEN Mu0Dimensions
    ELSE IF Mu0Mismatch(self, mu0) THEN Mu0Error
    ELSE LET wv == np_atleast_1d(wvln)
             water_coef == np_interp(wv, ABSCOEF.wvln, ABSCOEF.water_coef)
             water_exp == np_interp(wv, ABSCOEF.wvln, ABSCOEF.water_exp)
         IN  Return(<<Map4(WaterTrn, water_coef, water_exp, Field(self.h2o),
                           Field(np_atleast_1d(mu0)))>>)

\* np.exp(-k * L / mu0)
OzoneTrn(k, path, mu0) == FExp(FDiv(FMul(FNeg(k), path), mu0))

trn_ozone(self, wvln, mu0) ==
    IF Len(wvln.shape) > 1 THEN WvlnDimensions
    ELSE IF Len(mu0.shape) > 1 THEN Mu0Dimensions
    ELSE IF Mu0Mismatch(self, mu0) THEN Mu0Error
    ELSE LET ozone_xsec == np_interp(np_atleast_1d(wvln), ABSCOEF.wvln, ABSCOEF.ozone_xsec)
             ozone_coef == Mul(Const(LOSCHMIDT), ozone_xsec)
             ozone_path == NewAxis(Mul(Const(Dec(1, 1000)), AsReal(self.o3)))
         IN  Return(<<Map3(OzoneTrn, ozone_coef, ozone_path, Field(np_atleast_1d(mu0)))>>)

\* np.exp(-(k * L / mu0)**a)
OxygenTrn(k, path, mu0) == FExp(FNeg(FPow(FDiv(FMul(k, path), mu0), OXYGEN_EXP)))

trn_oxygen(self, wvln, mu0) ==
    IF Len(wvln.shape) > 1 THEN WvlnDimensions
    ELSE IF Len(mu0.shape) > 1 THEN Mu0Dimensions
    ELSE IF Mu0Mismatch(self, mu0) THEN Mu0Error
    ELSE LET oxygen_coef == np_interp(np_atleast_1d(wvln), ABSCOEF.wvln,
                                      ABSCOEF.oxygen_coef)
             oxygen_path == Array(<<1, 1>>, [i \in Indices(<<1, 1>>) |-> OXYGEN_PATH])
         IN  Return(<<Map3(OxygenTrn, oxygen_coef, oxygen_path,
                           Field(np_atleast_1d(mu0)))>>)

(***************************************************************************)
(* radtran.  toa is what np.loadtxt reads from the TOA file: the rows      *)
(* <<wavelength in nm, irradiance>>, at least two of them.                 *)
(***************************************************************************)
\* a 0-dimensional value cannot be indexed with [:, None]
TooManyIndices == Raise("IndexError", "too many indices for array")

\* the factor, which geometric_factor gives in millionths, as reals
Millionths(x) == Array(x.shape, [i \in DOMAIN x.data |-> Dec(x.data[i], 1000000)])

\* a slip: the limits of the window left out
Filtered_Exclusive(toa, wvln_th) ==
    SelectSeq(toa, LAMBDA row : row[1] > wvln_th.data[<<1>>] /\ row[1] < wvln_th.data[<<2>>])

\* the rows of the TOA file inside the window, in the order of the file
Filtered(toa, wvln_th) ==
    SelectSeq(toa, LAMBDA row : row[1] >= wvln_th.data[<<1>>] /\ row[1] <= wvln_th.data[<<2>>])

\* a slip: the amplification applied to the direct irradiance too
radtran_out_AmplifiedDirect(irr0, out_mix, out_wat, out_ozo, out_oxy, rho, mu0, wvln0) ==
    IF out_mix.st # "ok" THEN out_mix
    ELSE IF out_wat.st # "ok" THEN out_wat
    ELSE IF out_ozo.st # "ok" THEN out_ozo
    ELSE IF out_oxy.st # "ok" THEN out_oxy
    ELSE LET tdir_gas == Mul(Mul(out_wat.val[1], out_ozo.val[1]), out_oxy.val[1])
             amp_factor == Div(Const(1), Sub(Const(1), Mul(rho, out_mix.val[4])))
             irr_glb == Mul(Mul(Mul(Mul(irr0, mu0), out_mix.val[1]), tdir_gas), amp_factor)
             irr_dir == Mul(Mul(Mul(irr0, out_mix.val[2]), tdir_gas), amp_factor)
         IN  Return(<<irr_glb, irr_dir, Sub(irr_glb, Mul(irr_dir, mu0)), wvln0>>)

\* the irradiances once the transmittances are computed
radtran_out(irr0, out_mix, out_wat, out_ozo, out_oxy, rho, mu0, wvln0) ==
    IF out_mix.st # "ok" THEN out_mix
    ELSE IF out_wat.st # "ok" THEN out_wat
    ELSE IF out_ozo.st # "ok" THEN out_ozo
    ELSE IF out_oxy.st # "ok" THEN out_oxy
    ELSE LET tglb_mix == out_mix.val[1]
             tdir_mix == out_mix.val[2]
             atm_alb == out_mix.val[4]
             tdir_gas == Mul(Mul(out_wat.val[1], out_ozo.val[1]), out_oxy.val[1])
             amp_factor == Div(Const(1), Sub(Const(1), Mul(rho, atm_alb)))
             irr_glb == Mul(Mul(Mul(Mul(irr0, mu0), tglb_mix), tdir_gas), amp_factor)
             irr_dir == Mul(Mul(irr0, tdir_mix), tdir_gas)
             irr_dif == Sub(irr_glb, Mul(irr_dir, mu0))
         IN  Return(<<irr_glb, irr_dir, irr_dif, wvln0>>)

radtran(geom, atmo, toa, wvln_th, coupling) ==
    IF wvln_th.kind = "scalar"
    THEN Raise("TypeError", "object is not subscriptable")
    ELSE IF LengthOf(wvln_th) < 2
    THEN Raise("IndexError", "list index out of range")
    ELSE LET kept == Filtered(toa, wvln_th)
             wvln0 == Vector("list", [j \in 1..Len(kept) |-> kept[j][1]])
             irr0 == Vector("array", [j \in 1..Len(kept) |-> kept[j][2]])
             wvln_um == Vector("array", [j \in 1..Len(kept) |-> kept[j][1] \div 1000])
             geo_factor == geometric_factor(geom, "True").val
         IN  IF geo_factor.shape = <<>> THEN TooManyIndices
             ELSE radtran_out(Mul(AsReal(irr0), NewAxis(Millionths(geo_factor))),
                              trn_mixture(atmo, wvln_um, geom.mu0, "True", coupling),
                              trn_water(atmo, wvln0, geom.mu0),
                              trn_ozone(atmo, wvln0, geom.mu0),
                              trn_oxygen(atmo, wvln0, geom.mu0),
                              Field(atmo.rho), Field(geom.mu0), wvln0)

(***************************************************************************)
(* The gas transmittance of the tests (TrnGasTest.calcObj1)                *)
(***************************************************************************)
calcObj1_out(trn1, trn2, trn3) ==
    IF trn1.st # "ok" THEN trn1
    ELSE IF trn2.st # "ok" THEN trn2
    ELSE IF trn3.st # "ok" THEN trn3
    ELSE Return(<<Mul(Mul(trn1.val[1], trn2.val[1]), trn3.val[1])>>)

\* a slip: the oxygen left out of the product
calcObj1_WaterOzone(geom, atmo, wvln) ==
    calcObj1_out(trn_water(atmo, wvln, geom.mu0), trn_ozone(atmo, wvln, geom.mu0),
                 Return(<<Const(1)>>))

calcObj1(geom, atmo, wvln) ==
    calcObj1_out(trn_water(atmo, wvln, geom.mu0), trn_ozone(atmo, wvln, geom.mu0),
                 trn_oxygen(atmo, wvln, geom.mu0))

(***************************************************************************)
(* The constructor calls the model draws.  A scenario is drawn from values *)
(* on and next to the limits of every field; it is passed as scalars, as   *)
(* one entry of arrays of up to MaxScen scenarios whose other entries are  *)
(* the reference scenario, or as lists.                                    *)
(***************************************************************************)
Modes == {"deg", "rad", "grad"}

\* the number that stands for the angle of d thousandths of a degree
Angle(mode, d) == IF mode = "deg" THEN d ELSE Radians(d)

LatIn(mode) == {Angle(mode, d) + e : d \in {-90000, 90000}, e \in {0}} \cup
               {Angle(mode, -90000) - 1, Angle(mode, 90000) + 1}

LonIn(mode) == {Angle(mode, -180000) - 1, Angle(mode, -180000),
                Angle(mode, 180000), Angle(mode, 180000) + 1}

SzaIn(mode) == {-1, 0, Angle(mode, 60000), Angle(mode, 180000), Angle(mode, 180000) + 1}

DayIn == {999, 1000, 1500, 366000, 366001}

GeoFields == {"lat", "lon", "sza", "day"}

\* the reference scenario of the end-to-end example, with sza = 60 degrees
GeoRef(mode) ==
    [lat |-> Angle(mode, 28310), lon |-> Angle(mode, -16500),
     sza |-> Angle(mode, 60000), day |-> 152000]

GeoScenarios(mode) ==
    [lat : LatIn(mode), lon : LonIn(mode), sza : SzaIn(mode), day : DayIn]
        \cup {GeoRef(mode)}

\* the sequences of up to MaxScen scenarios that are ref but for s at one position
Placed(s, ref) ==
    {[j \in 1..n |-> IF j = i THEN s ELSE ref] : n \in 1..MaxScen, i \in 1..MaxScen}

Column(kind, ss, f) == Vector(kind, [j \in 1..Len(ss) |-> ss[j][f]])

GeometryCall(lat, lon, sza, day, mode) ==
    [op |-> "Geometry", lat |-> lat, lon |-> lon, sza |-> sza, day |-> day, mode |-> mode]

\* kinds gives the kind of every field
GeoVectors(ss, kinds, mode) ==
    GeometryCall(Column(kinds.lat, ss, "lat"), Column(kinds.lon, ss, "lon"),
                 Column(kinds.sza, ss, "sza"), Column(kinds.day, ss, "day"), mode)

GeoKinds ==
    {[f \in GeoFields |-> "array"], [f \in GeoFields |-> "list"],
     [f \in GeoFields |-> IF f = "day" THEN "array" ELSE "list"]}

\* how a scenario is passed: as scalars, or as vectors of the given kinds
GeometryValueCall(c) ==
    \E mode \in Modes : \E s \in GeoScenarios(mode) :
        \/ c = GeometryCall(Scalar(s.lat), Scalar(s.lon), Scalar(s.sza), Scalar(s.day), mode)
        \/ \E ss \in Placed(s, GeoRef(mode)) :
              c = GeoVectors(ss, [f \in GeoFields |-> "array"], mode)
        \/ \E k \in GeoKinds : c = GeoVectors(<<s>>, k, mode)
        \/ \E k \in GeoKinds : c = GeoVectors(<<>>, k, mode)

\* the shapes of the arguments: scalar, vectors (the empty one too), 2-D
Shapes == {<<>>} \cup {<<n>> : n \in 0..MaxScen} \cup {<<n, n>> : n \in 1..MaxScen}

\* the sets of at most two of the fields fs
UpToTwo(fs) == {{}} \cup {{a, b} : a \in fs, b \in fs}

\* every field has shape s, but for those of dev, which have shape t
GeometryShapeCall(c) ==
    \E s \in Shapes, t \in Shapes, dev \in SUBSET GeoFields,
       kind \in {"array", "list"}, mode \in {"deg", "rad"} :
        LET a(f) == Full(kind, IF f \in dev THEN t ELSE s, GeoRef(mode)[f])
        IN  c = GeometryCall(a("lat"), a("lon"), a("sza"), a("day"), mode)

AtmFields == {"p", "rho", "o3", "h2o", "alpha", "beta", "w0", "g"}

\* the reference scenario of the end-to-end example
AtmRef ==
    [p |-> 800000, rho |-> 200, o3 |-> 300000, h2o |-> 400, alpha |-> 1500,
     beta |-> 50, w0 |-> DEFAULT_W0, g |-> DEFAULT_G]

\* -2 stands for an optional argument that is not given
Absent == 0 - 2

AtmScenarios ==
    [p : {-1, 0}, rho : {-1, 0, 1000, 1001}, o3 : {-1, 0}, h2o : {-1, 0},
     alpha : {-1, 0}, beta : {-1, 0}, w0 : {Absent, -1, 0, 1000, 1001},
     g : {Absent, -1001, -1000, 1000, 1001}]
        \cup {AtmRef, [AtmRef EXCEPT !.rho = 1500],
              [AtmRef EXCEPT !.w0 = Absent, !.g = Absent]}

AtmosphereCall(p, rho, o3, h2o, alpha, beta, w0, g) ==
    [op |-> "Atmosphere", p |-> p, rho |-> rho, o3 |-> o3, h2o |-> h2o,
     alpha |-> alpha, beta |-> beta, w0 |-> w0, g |-> g]

\* an optional field is given when the first scenario gives it
Optional(kind, ss, f) ==
    IF ss # <<>> /\ ss[1][f] = Absent THEN None
    ELSE Vector(kind, [j \in 1..Len(ss) |-> IF ss[j][f] = Absent THEN AtmRef[f] ELSE ss[j][f]])

AtmVectors(ss, kind) ==
    AtmosphereCall(Column(kind, ss, "p"), Column(kind, ss, "rho"), Column(kind, ss, "o3"),
                   Column(kind, ss, "h2o"), Column(kind, ss, "alpha"),
                   Column(kind, ss, "beta"), Optional(kind, ss, "w0"), Optional(kind, ss, "g"))

OptScalar(v) == IF v = Absent THEN None ELSE Scalar(v)

AtmosphereValueCall(c) ==
    \E s \in AtmScenarios :
        \/ c = AtmosphereCall(Scalar(s.p), Scalar(s.rho), Scalar(s.o3), Scalar(s.h2o),
                              Scalar(s.alpha), Scalar(s.beta), OptScalar(s.w0), OptScalar(s.g))
        \/ \E ss \in Placed(s, AtmRef) : c = AtmVectors(ss, "array")
        \/ c = AtmVectors(<<s>>, "list")
        \/ \E k \in {"array", "list"} : c = AtmVectors(<<>>, k)

AtmosphereShapeCall(c) ==
    \E s \in Shapes, t \in Shapes, dev \in UpToTwo(AtmFields),
       absent \in SUBSET {"w0", "g"}, kind \in {"array", "list"} :
        LET a(f) == IF f \in absent THEN None
                    ELSE Full(kind, IF f \in dev THEN t ELSE s, AtmRef[f])
        IN  c = AtmosphereCall(a("p"), a("rho"), a("o3"), a("h2o"), a("alpha"), a("beta"),
                               a("w0"), a("g"))

(***************************************************************************)
(* The constructors as actions.  A failed construction raises and leaves   *)
(* no instance.                                                            *)
(***************************************************************************)
NewGeometry ==
    /\ call.op = "Geometry"
    /\ ret = Pending
    /\ LET r == Geometry_new(call.lat, call.lon, call.sza, call.day, call.mode)
       IN  /\ geo' = IF r.st = "ok" THEN r ELSE geo
           /\ ret' = Raise(r.st, r.msg)
    /\ UNCHANGED <<call, atm, out, proc, abscoef>>

NewAtmosphere ==
    /\ call.op = "Atmosphere"
    /\ ret = Pending
    /\ LET r == Atmosphere_new(call.p, call.rho, call.o3, call.h2o, call.alpha,
                               call.beta, call.w0, call.g)
       IN  /\ atm' = IF r.st = "ok" THEN r ELSE atm
           /\ ret' = Raise(r.st, r.msg)
    /\ UNCHANGED <<call, geo, out, proc, abscoef>>

NoCall ==
    /\ proc = NoProcess
    /\ abscoef = Loaded
    /\ geo = NoGeometry
    /\ atm = NoAtmosphere
    /\ ret = Pending
    /\ out = NoValue

\* the construction of Geometry records
InitGeometry == (GeometryValueCall(call) \/ GeometryShapeCall(call)) /\ NoCall

SpecGeometry == InitGeometry /\ [][NewGeometry]_vars

\* the construction of Atmosphere records
InitAtmosphere == (AtmosphereValueCall(call) \/ AtmosphereShapeCall(call)) /\ NoCall

SpecAtmosphere == InitAtmosphere /\ [][NewAtmosphere]_vars

\* the shapes of the arguments of both constructors
InitRecords == (GeometryShapeCall(call) \/ AtmosphereShapeCall(call)) /\ NoCall

SpecRecords == InitRecords /\ [][NewGeometry \/ NewAtmosphere]_vars

(***************************************************************************)
(* What the claims about construction speak of.                            *)
(***************************************************************************)
\* the arguments that are given
Given(c, fields) == {f \in fields : ~IsNone(c[f])}

\* the given arguments have one common shape, a scalar or a vector
WellShaped(c, fields) ==
    /\ \A f1 \in Given(c, fields), f2 \in Given(c, fields) : c[f1].shape = c[f2].shape
    /\ \A f \in Given(c, fields) : Len(c[f].shape) <= 1

AllIn(x, lo, hi) == \A i \in DOMAIN x.data : lo <= x.data[i] /\ x.data[i] <= hi

\* no upper limit: above every number of the model
Unbounded == 2000000 * 1000

\* the domain of every field of an Atmosphere
AtmDomain ==
    [p |-> <<0, Unbounded>>, rho |-> <<0, 1000>>, o3 |-> <<0, Unbounded>>,
     h2o |-> <<0, Unbounded>>, alpha |-> <<0, Unbounded>>, beta |-> <<0, Unbounded>>,
     w0 |-> <<0, 1000>>, g |-> <<-1000, 1000>>]

AtmInDomain(c, f) == AllIn(c[f], AtmDomain[f][1], AtmDomain[f][2])

\* the domain of every field of a Geometry, in radians
GeoDomain ==
    [lat |-> <<-(Pi \div 2), Pi \div 2>>, lon |-> <<-Pi, Pi>>, sza |-> <<0, Pi>>,
     day |-> <<1000, 366000>>]

GeoInDomain(c, f) == AllIn(c[f], GeoDomain[f][1], GeoDomain[f][2])

\* the arguments of a Geometry call with the angles in radians
InRadians(c) ==
    IF c.mode = "deg"
    THEN [c EXCEPT !.lat = np_radians(c.lat), !.lon = np_radians(c.lon),
                   !.sza = np_radians(c.sza)]
    ELSE c

RangeMessages ==
    {"pressure out of range", "albedo out of range", "ozone out of range",
     "water vapour out of range", "Angstrom alpha out of range",
     "Angstrom beta out of range", "single scattering albedo out of range",
     "asymmetry parameter out of range", "latitude values out of range",
     "longitude values out of range", "solar zenith angle values out of range",
     "Julian days out of range"}

RangeViolation(r) == r.st = "ValueError" /\ r.msg \in RangeMessages

ShapeMismatch(r) == r.st = "AttributeError"

Called(name) == call.op = name /\ ret # Pending

\* C1: every Atmosphere that construction returns has every field of every
\* scenario in its domain, and a construction with some value of some
\* scenario outside its domain fails with a range-violation error and
\* leaves no instance.
C1_AtmosphereRanges ==
    /\ atm # NoAtmosphere => \A f \in AtmFields : AtmInDomain(atm, f)
    /\ ( /\ Called("Atmosphere")
         /\ WellShaped(call, AtmFields)
         /\ \E f \in Given(call, AtmFields) : ~AtmInDomain(call, f) )
       => RangeViolation(ret) /\ atm = NoAtmosphere

\* C1 for the arguments Python can compare with a number: w0 is no list
C1_ComparableArguments ==
    ~IsList(call.w0) => C1_AtmosphereRanges

\* C2: a Geometry construction with some scenario outside the ranges (after
\* the conversion to radians) fails with a range-violation error; one with
\* every scenario inside them, the limits included, succeeds; every
\* constructed Geometry stores lat, lon and sza in radians inside the ranges.
C2_GeometryRanges ==
    ( /\ Called("Geometry")
      /\ WellShaped(call, GeoFields)
      /\ call.mode \in {"deg", "rad"} )
    => /\ (\E f \in GeoFields : ~GeoInDomain(InRadians(call), f))
            => RangeViolation(ret) /\ geo = NoGeometry
       /\ (\A f \in GeoFields : GeoInDomain(InRadians(call), f))
            => /\ ret = Ok
               /\ \A f \in {"lat", "lon", "sza"} :
                    geo[f].data = InRadians(call)[f].data /\ GeoInDomain(geo, f)

\* C2 for the arguments Python can compare with a number: day is no list,
\* and neither is sza when the angles are given in radians
C2_ComparableArguments ==
    (~IsList(call.day) /\ ~IsList(InRadians(call).sza)) => C2_GeometryRanges

\* C3: a construction whose given arguments do not all have one common
\* shape, or whose common shape has more than one dimension, fails with a
\* shape-mismatch error and leaves no instance.
C3_ShapeMismatch ==
    /\ (Called("Geometry") /\ ~WellShaped(call, GeoFields))
         => ShapeMismatch(ret) /\ geo = NoGeometry
    /\ (Called("Atmosphere") /\ ~WellShaped(call, AtmFields))
         => ShapeMismatch(ret) /\ atm = NoAtmosphere

\* Geometry(lat=[1,2], lon=[1], sza=[1], day=[1]) has failed
C3_Witness ==
    /\ Called("Geometry")
    /\ call.lat.kind = "list" /\ call.lat.shape = <<2>>
    /\ \A f \in {"lon", "sza", "day"} : call[f].shape = <<1>>
    /\ ShapeMismatch(ret)

\* C4: in every constructed Geometry mu0 is cos(sza) of the stored sza in
\* every scenario, and the construction from degrees stores the same lat,
\* lon, sza and mu0 as the construction in mode 'rad' from the same angles
\* converted to radians.
C4_Mu0IsCosSza ==
    geo # NoGeometry =>
        /\ geo.mu0.shape = geo.sza.shape
        /\ \A i \in DOMAIN geo.sza.data : geo.mu0.data[i] = Cos(geo.sza.data[i])
        /\ call.mode = "deg" =>
             LET r == Geometry_new(np_radians(call.lat), np_radians(call.lon),
                                   np_radians(call.sza), call.day, "rad")
             IN  /\ r.st = "ok"
                 /\ \A f \in {"lat", "lon", "sza", "mu0"} : r[f] = geo[f]

\* a Geometry of two scenarios was constructed from degrees
C4_Witness ==
    /\ geo # NoGeometry
    /\ call.mode = "deg"
    /\ geo.sza.shape = <<2>>
    /\ \E i \in DOMAIN geo.mu0.data : geo.mu0.data[i] = 500

(***************************************************************************)
(* The calls of the engine.  The Atmosphere is one the constructor made:   *)
(* the reference scenario given as scalars, or arrays of 1..MaxScen        *)
(* scenarios of which the first is the reference scenario.  The            *)
(* wavelengths and mu0 are scalars, vectors (the empty one, and for mu0    *)
(* one longer than MaxScen too) or 2-D arrays; a flag is True, False or    *)
(* the integer 1.                                                          *)
(***************************************************************************)
\* scenario j of the sample records: every field differs from scenario to scenario
AtmScen(j) ==
    [p |-> AtmRef.p + 100000 * (j - 1), rho |-> AtmRef.rho + 100 * (j - 1),
     o3 |-> AtmRef.o3 + 50000 * (j - 1), h2o |-> AtmRef.h2o + 300 * (j - 1),
     alpha |-> AtmRef.alpha - 200 * (j - 1), beta |-> AtmRef.beta + 40 * (j - 1),
     w0 |-> AtmRef.w0 - 50 * (j - 1), g |-> AtmRef.g - 100 * (j - 1)]

Construct(c) ==
    Atmosphere_new(c.p, c.rho, c.o3, c.h2o, c.alpha, c.beta, c.w0, c.g)

\* atm0: the reference scenario, with the default w0 and g
Atm0 ==
    Construct(AtmosphereCall(Scalar(AtmRef.p), Scalar(AtmRef.rho), Scalar(AtmRef.o3),
                             Scalar(AtmRef.h2o), Scalar(AtmRef.alpha), Scalar(AtmRef.beta),
                             None, None))

\* atm1: n scenarios
Atm1(n) == Construct(AtmVectors([j \in 1..n |-> AtmScen(j)], "array"))

EngineAtmospheres == {Atm0} \cup {Atm1(n) : n \in 1..MaxScen}

Flags == {"True", "False", "1"}

\* wavelength j in nm: 300 nm, the left end of the table, then every 400 nm
WvlnNm(j) == 300000 + 400000 * (j - 1)

\* the same wavelength in microns
WvlnUm(j) == WvlnNm(j) \div 1000

\* mu0 of scenario j: the cosines of 60, 30 and 0 degrees in turn
Mu0Of(j) == <<500, 866, 1000>>[((j - 1) % 3) + 1]

\* a scalar, a vector of up to n numbers or a 1 x 1 array of the numbers v[j]
ArgumentsOf(v(_), n) ==
    {Scalar(v(1)), Full("array", <<1, 1>>, v(1))}
        \cup {Vector("array", [j \in 1..m |-> v(j)]) : m \in 0..n}

MicronOps == {"tau_rayleigh", "tau_aerosols", "trn_rayleigh", "trn_aerosols", "trn_mixture"}

GasOps == {"trn_water", "trn_ozone", "trn_oxygen"}

EngineCall(c) ==
    \E op \in MicronOps \cup GasOps :
    \E wvln \in IF op \in GasOps THEN ArgumentsOf(WvlnNm, MaxWvln)
                ELSE ArgumentsOf(WvlnUm, MaxWvln) :
    \E mu0 \in IF op \in {"tau_rayleigh", "tau_aerosols"} THEN {None}
               ELSE ArgumentsOf(Mu0Of, MaxScen + 1) :
    \E return_albedo \in IF op \in GasOps THEN {"False"} ELSE Flags :
    \E coupling \in IF op \in {"trn_aerosols", "trn_mixture"} THEN Flags ELSE {"False"} :
        c = [op |-> op, wvln |-> wvln, mu0 |-> mu0, return_albedo |-> return_albedo,
             coupling |-> coupling]

\* the call made on atm: what it raises and what it returns
Returns(r) ==
    /\ ret' = Raise(r.st, r.msg)
    /\ out' = IF r.st = "ok" THEN r.val ELSE NoValue
    /\ UNCHANGED <<call, geo, atm, proc, abscoef>>

TauRayleigh ==
    /\ call.op = "tau_rayleigh" /\ ret = Pending
    /\ Returns(tau_rayleigh(atm, call.wvln, call.return_albedo))

TauAerosols ==
    /\ call.op = "tau_aerosols" /\ ret = Pending
    /\ Returns(tau_aerosols(atm, call.wvln, call.return_albedo))

TrnRayleigh ==
    /\ call.op = "trn_rayleigh" /\ ret = Pending
    /\ Returns(trn_rayleigh(atm, call.wvln, call.mu0, call.return_albedo))

TrnAerosols ==
    /\ call.op = "trn_aerosols" /\ ret = Pending
    /\ Returns(trn_aerosols(atm, call.wvln, call.mu0, call.return_albedo, call.coupling))

TrnMixture ==
    /\ call.op = "trn_mixture" /\ ret = Pending
    /\ Returns(trn_mixture(atm, call.wvln, call.mu0, call.return_albedo, call.coupling))

TrnWater ==
    /\ call.op = "trn_water" /\ ret = Pending
    /\ Returns(trn_water(atm, call.wvln, call.mu0))

TrnOzone ==
    /\ call.op = "trn_ozone" /\ ret = Pending
    /\ Returns(trn_ozone(atm, call.wvln, call.mu0))

TrnOxygen ==
    /\ call.op = "trn_oxygen" /\ ret = Pending
    /\ Returns(trn_oxygen(atm, call.wvln, call.mu0))

InitEngine ==
    /\ EngineCall(call)
    /\ proc = NoProcess
    /\ abscoef = Loaded
    /\ geo = NoGeometry
    /\ atm \in EngineAtmospheres
    /\ ret = Pending
    /\ out = NoValue

NextEngine ==
    \/ TauRayleigh \/ TauAerosols \/ TrnRayleigh \/ TrnAerosols
    \/ TrnMixture \/ TrnWater \/ TrnOzone \/ TrnOxygen

\* the optical depths and transmittances of an Atmosphere
SpecEngine == InitEngine /\ [][NextEngine]_vars

(***************************************************************************)
(* What the claims about the engine speak of.                              *)
(***************************************************************************)
TrnOps == {"trn_rayleigh", "trn_aerosols", "trn_mixture"} \cup GasOps

\* the call has returned or raised
Made(ops) == call.op \in ops /\ ret # Pending

\* the arguments other than mu0 are valid: wavelengths of at most one
\* dimension, boolean flags
OtherArgumentsValid(c) ==
    Len(c.wvln.shape) <= 1 /\ IsBool(c.return_albedo) /\ IsBool(c.coupling)

ScenarioCountError(r) == r.st = "IndexError"

\* the arrays among the results (the tuple () is none)
ResultArrays == {j \in 1..Len(out) : out[j] # EmptyTuple}

\* C5: for every trn_ method and every Atmosphere (of one scenario too), a
\* call whose mu0 has at most one dimension and a length that is neither 1
\* nor nscen fails with the scenario-count error and returns nothing; a mu0
\* of more than one dimension fails too.
C5_Mu0ScenarioCount ==
    (Made(TrnOps) /\ OtherArgumentsValid(call)) =>
        /\ (Len(call.mu0.shape) <= 1 /\ LengthOf(call.mu0) \notin {1, nscen(atm)})
             => ScenarioCountError(ret) /\ out = NoValue
        /\ Len(call.mu0.shape) > 1 => ret # Ok /\ out = NoValue

\* C5 as the code has it: the scenario-count error is raised for an
\* Atmosphere of two scenarios or more; an Atmosphere of one scenario takes
\* a mu0 of any length and returns transmittances of one row per element of
\* mu0; a mu0 of more than one dimension fails.
C5_Mu0ScenarioCountAbove1 ==
    (Made(TrnOps) /\ OtherArgumentsValid(call)) =>
        /\ ( /\ Len(call.mu0.shape) <= 1
             /\ LengthOf(call.mu0) \notin {1, nscen(atm)}
             /\ nscen(atm) # 1 )
             => ScenarioCountError(ret) /\ out = NoValue
        /\ (Len(call.mu0.shape) <= 1 /\ nscen(atm) = 1)
             => /\ ret = Ok
                /\ \A j \in 1..3 : j <= Len(out) => out[j].shape[1] = LengthOf(call.mu0)
        /\ Len(call.mu0.shape) > 1 => ret # Ok /\ out = NoValue

\* an Atmosphere of two scenarios has refused a mu0 of three elements in a
\* call whose other arguments are valid
C5_Witness ==
    /\ Made(TrnOps)
    /\ OtherArgumentsValid(call)
    /\ call.mu0.shape = <<3>>
    /\ nscen(atm) = 2
    /\ ScenarioCountError(ret)

\* C6: every array that tau_rayleigh, tau_aerosols and the six trn_ methods
\* return for an Atmosphere of m scenarios and k wavelengths (k = 1 for a
\* scalar wavelength) has shape (m, k), for a scalar mu0 and for a mu0 of
\* m elements.
C6_ResultShapes ==
    ( /\ Made(MicronOps \cup GasOps)
      /\ ret = Ok
      /\ call.op \in TrnOps => (call.mu0.shape = <<>> \/ call.mu0.shape = <<nscen(atm)>>) )
    => \A j \in ResultArrays : out[j].shape = <<nscen(atm), LengthOf(call.wvln)>>

\* C6 but for trn_oxygen with a mu0 of one element
C6_ButOxygen ==
    (call.op = "trn_oxygen" /\ LengthOf(call.mu0) = 1) \/ C6_ResultShapes

\* C11: in what trn_rayleigh, trn_aerosols and trn_mixture return, with and
\* without coupling, the diffuse transmittance of every scenario and
\* wavelength is the global transmittance minus the direct one.
C11_DiffuseIsGlobalMinusDirect ==
    (Made({"trn_rayleigh", "trn_aerosols", "trn_mixture"}) /\ ret = Ok) =>
        /\ out[3].shape = out[1].shape
        /\ out[3].shape = out[2].shape
        /\ \A i \in Indices(out[3].shape) :
             out[3].data[i] = FSub(out[1].data[i], out[2].data[i])

\* the three methods in turn, with coupling where they take it, have
\* returned a diffuse transmittance that is not zero
C11_Witness ==
    /\ Made({"trn_rayleigh", "trn_aerosols", "trn_mixture"}) /\ ret = Ok
    /\ call.op = "trn_mixture" /\ call.coupling = "True"
    /\ out[3].shape = <<2, 2>>
    /\ out[3].data[<<2, 2>>] # 0
    /\ out[1].data[<<2, 2>>] # out[2].data[<<2, 2>>]

\* C12: trn_mixture without coupling returns the products of the global
\* and of the direct transmittances that trn_rayleigh and trn_aerosols
\* (coupling off) return for the same wavelengths and mu0; with
\* return_albedo True a fourth array, the sum of their albedo
\* contributions; with return_albedo False three arrays.
C12_MixtureIsProduct ==
    (Made({"trn_mixture"}) /\ call.coupling = "False" /\ ret = Ok) =>
        \A t \in {<<trn_rayleigh(atm, call.wvln, call.mu0, call.return_albedo).val,
                    trn_aerosols(atm, call.wvln, call.mu0, call.return_albedo,
                                 "False").val>>} :
            /\ out[1] = Mul(t[1][1], t[2][1])
            /\ out[2] = Mul(t[1][2], t[2][2])
            /\ call.return_albedo = "True" => Len(out) = 4 /\ out[4] = Add(t[1][4], t[2][4])
            /\ call.return_albedo = "False" => Len(out) = 3

\* the mixture of two scenarios at two wavelengths with the albedo
C12_Witness ==
    /\ Made({"trn_mixture"}) /\ call.coupling = "False" /\ ret = Ok
    /\ call.return_albedo = "True"
    /\ Len(out) = 4
    /\ out[2].shape = <<2, 2>>
    /\ out[2].data[<<2, 2>>] # out[1].data[<<2, 2>>]

\* C13: trn_water is 1 for every scenario at every wavelength whose
\* interpolated exponent a is zero, and exp(-(k h2o / mu0)^a) at the others,
\* k the interpolated coefficient.
C13_WaterTransmittance ==
    (Made({"trn_water"}) /\ ret = Ok) =>
        \A t \in {<<np_interp(np_atleast_1d(call.wvln), ABSCOEF.wvln, ABSCOEF.water_coef),
                    np_interp(np_atleast_1d(call.wvln), ABSCOEF.wvln, ABSCOEF.water_exp),
                    np_atleast_1d(call.mu0)>>} :
            \A i \in 1..out[1].shape[1], j \in 1..out[1].shape[2] :
                out[1].data[<<i, j>>] =
                    IF t[2].data[<<j>>] = 0 THEN 1
                    ELSE FExp(FNeg(FPow(FDiv(FMul(t[1].data[<<j>>], Real(At(atm.h2o, <<i>>))),
                                             Real(At(t[3], <<i>>))),
                                        t[2].data[<<j>>])))

\* two scenarios at 300 nm, where the exponent is zero, and at 700 nm,
\* where the water vapour absorbs
C13_Witness ==
    /\ Made({"trn_water"}) /\ ret = Ok
    /\ out[1].shape = <<2, 2>>
    /\ np_interp(np_atleast_1d(call.wvln), ABSCOEF.wvln, ABSCOEF.water_exp).data[<<1>>] = 0
    /\ out[1].data[<<2, 1>>] = 1
    /\ out[1].data[<<2, 2>>] # 1

(***************************************************************************)
(* The calls of radtran and of the gas transmittance of the tests.  The    *)
(* Geometry is one the constructor made: the reference scenario given as   *)
(* scalars, or arrays of 1..MaxScen + 1 scenarios of which the first is    *)
(* the reference scenario.  The TOA spectrum is an ascending selection of  *)
(* two wavelengths or more; the window has its limits on, between and      *)
(* beside them.                                                            *)
(***************************************************************************)
\* scenario j of the sample Geometry, in degrees and days
GeoScen(j) ==
    [lat |-> GeoRef("deg").lat, lon |-> GeoRef("deg").lon,
     sza |-> <<60000, 30000, 0>>[((j - 1) % 3) + 1],
     day |-> <<152000, 1000, 186000, 4000, 366000>>[((j - 1) % 5) + 1]]

ConstructGeometry(c) == Geometry_new(c.lat, c.lon, c.sza, c.day, c.mode)

\* geo0: the reference scenario as scalars
Geo0 ==
    ConstructGeometry(GeometryCall(Scalar(GeoScen(1).lat), Scalar(GeoScen(1).lon),
                                   Scalar(GeoScen(1).sza), Scalar(GeoScen(1).day), "deg"))

\* geo1: n scenarios
Geo1(n) ==
    ConstructGeometry(GeoVectors([j \in 1..n |-> GeoScen(j)],
                                 [f \in GeoFields |-> "array"], "deg"))

PipelineGeometries == {Geo0} \cup {Geo1(n) : n \in 1..(MaxScen + 1)}

\* the TOA irradiance of wavelength j
IrrOf(j) == 500 * j + 1000

\* the spectrum of the wavelengths js
Spectrum(js) ==
    LET n == Cardinality(js)
        nth(i) == CHOOSE j \in js : Cardinality({h \in js : h < j}) = i - 1
    IN  [i \in 1..n |-> <<WvlnNm(nth(i)), IrrOf(nth(i))>>]

Spectra == {Spectrum(js) : js \in {x \in SUBSET (1..(MaxWvln + 1)) : Cardinality(x) >= 2}}

\* the limits of a window
Limits ==
    {WvlnNm(1) - 1, WvlnNm(1), WvlnNm(2), WvlnNm(2) + 1, WvlnNm(MaxWvln + 1),
     WvlnNm(MaxWvln + 1) + 1}

Windows ==
    {Vector("list", <<lo, hi>>) : lo \in Limits, hi \in Limits}
        \cup {Vector("list", <<>>), Vector("list", <<WvlnNm(1)>>),
              Vector("list", <<WvlnNm(1), WvlnNm(2), WvlnNm(1)>>), Scalar(WvlnNm(1))}

PipelineCall(c) ==
    \/ \E toa \in Spectra, wvln_th \in Windows, coupling \in Flags :
          c = [op |-> "radtran", toa |-> toa, wvln_th |-> wvln_th, coupling |-> coupling]
    \/ \E wvln \in ArgumentsOf(WvlnNm, MaxWvln) : c = [op |-> "calcObj1", wvln |-> wvln]

Radtran ==
    /\ call.op = "radtran" /\ ret = Pending
    /\ Returns(radtran(geo, atm, call.toa, call.wvln_th, call.coupling))

TrnGasTest ==
    /\ call.op = "calcObj1" /\ ret = Pending
    /\ Returns(calcObj1(geo, atm, call.wvln))

InitPipeline ==
    /\ PipelineCall(call)
    /\ proc = NoProcess
    /\ abscoef = Loaded
    /\ geo \in PipelineGeometries
    /\ atm \in EngineAtmospheres
    /\ ret = Pending
    /\ out = NoValue

\* the irradiance pipeline and the gas transmittance of the tests
SpecPipeline == InitPipeline /\ [][Radtran \/ TrnGasTest]_vars

(***************************************************************************)
(* What the claims about the pipeline speak of.                            *)
(***************************************************************************)
\* row 1 of a 2-dimensional array
FirstRow(x) == [j \in 1..x.shape[2] |-> x.data[<<1, j>>]]

\* C7: the product trn_water * trn_ozone * trn_oxygen at the mu0 of a
\* Geometry has shape (n, k) for a Geometry and an Atmosphere that each hold
\* one scenario or several (the same number when both hold several) and a
\* scalar or vector wavelength: k is the number of wavelengths, n is 1 when
\* both hold one scenario and the number of scenarios of the vector record
\* otherwise; its first row is the gas transmittance of the reference
\* scenario.
C7_GasProduct ==
    ( /\ Made({"calcObj1"})
      /\ Len(call.wvln.shape) <= 1
      /\ (ngeo(geo) = 1 \/ nscen(atm) = 1 \/ ngeo(geo) = nscen(atm)) )
    => LET n == IF ngeo(geo) = 1 THEN nscen(atm) ELSE ngeo(geo)
           reference == Mul(Mul(trn_water(Atm0, call.wvln, Geo0.mu0).val[1],
                                trn_ozone(Atm0, call.wvln, Geo0.mu0).val[1]),
                            trn_oxygen(Atm0, call.wvln, Geo0.mu0).val[1])
       IN  /\ ret = Ok
           /\ out[1].shape = <<n, LengthOf(call.wvln)>>
           /\ FirstRow(out[1]) = FirstRow(reference)

\* the product for two geometries, two atmospheres and two wavelengths, of
\* which the second is absorbed by the oxygen
C7_Witness ==
    /\ Made({"calcObj1"})
    /\ ngeo(geo) = 2 /\ nscen(atm) = 2 /\ call.wvln.shape = <<2>>
    /\ ret = Ok
    /\ out[1].shape = <<2, 2>>
    /\ out[1].data[<<1, 2>>] # out[1].data[<<2, 2>>]

\* the number of TOA rows inside the window
InWindow(c) ==
    {i \in 1..Len(c.toa) : /\ c.toa[i][1] >= c.wvln_th.data[<<1>>]
                           /\ c.toa[i][1] <= c.wvln_th.data[<<2>>]}

\* a radtran call with a window of two limits and a boolean flag
RadtranArgumentsValid(c) ==
    c.wvln_th.kind = "list" /\ c.wvln_th.shape = <<2>> /\ IsBool(c.coupling)

\* C8: radtran with a Geometry and an Atmosphere of n >= 1 scenarios (n = 1
\* given as scalars too) returns without error irr_glb, irr_dir and irr_dif
\* of shape (n, k) and the list of the k wavelengths of the TOA spectrum
\* inside the window.
C8_RadtranCompletes ==
    ( /\ Made({"radtran"})
      /\ RadtranArgumentsValid(call)
      /\ ngeo(geo) = nscen(atm) )
    => /\ ret = Ok
       /\ Len(out) = 4
       /\ \A x \in 1..3 : out[x].shape = <<ngeo(geo), Cardinality(InWindow(call))>>
       /\ out[4].shape = <<Cardinality(InWindow(call))>>

\* C8 for two scenarios or more
C8_TwoOrMore ==
    ngeo(geo) >= 2 => C8_RadtranCompletes

\* the j-th smallest element of a set of numbers
Nth(js, j) == CHOOSE i \in js : Cardinality({h \in js : h < i}) = j - 1

\* column j of a 2-dimensional array
ColumnOf(x, j) == [i \in 1..x.shape[1] |-> x.data[<<i, j>>]]

\* C9: the wavelengths radtran returns are those of the TOA rows with
\* lambda_min <= w <= lambda_max, each once and in the order of the rows,
\* and column j of every irradiance array is what radtran computes from the
\* row of the j-th of them alone.
C9_FilteredWavelengths ==
    (Made({"radtran"}) /\ ret = Ok) =>
        LET rows == InWindow(call)
        IN  /\ out[4].shape = <<Cardinality(rows)>>
            /\ \A j \in 1..Cardinality(rows) :
                 \A row \in {call.toa[Nth(rows, j)]} :
                   \A alone \in {radtran(geo, atm, <<row>>, call.wvln_th, call.coupling).val} :
                     /\ out[4].data[<<j>>] = row[1]
                     /\ \A x \in 1..3 : ColumnOf(out[x], j) = ColumnOf(alone[x], 1)

\* a window that ends on the first and the last of three wavelengths has
\* kept the three
C9_Witness ==
    /\ Made({"radtran"}) /\ ret = Ok
    /\ Len(call.toa) = 3
    /\ call.wvln_th.data[<<1>>] = call.toa[1][1]
    /\ call.wvln_th.data[<<2>>] = call.toa[3][1]
    /\ out[4].shape = <<3>>

\* Iglb, Idir and Idif of one scenario and one wavelength
Irradiances(I0, mu0, Tglb, Tdir, Tgas, A) ==
    LET Iglb == FMul(FMul(FMul(FMul(I0, mu0), Tglb), Tgas), A)
        Idir == FMul(FMul(I0, Tdir), Tgas)
    IN  <<Iglb, Idir, FSub(Iglb, FMul(Idir, mu0))>>

\* what C10 says of the irradiances of scenario i and kept wavelength j
\* (row is its TOA row), from the results of the methods of the Atmosphere
IrradiancesOf(out_mix, out_wat, out_ozo, out_oxy, i, j, row) ==
    Irradiances(FMul(Real(row[2]), Dec(GeoFactor(day_angle(geo).data[<<i>>]), 1000000)),
                Real(geo.mu0.data[<<i>>]),
                At(out_mix.val[1], <<i, j>>), At(out_mix.val[2], <<i, j>>),
                FMul(FMul(At(out_wat.val[1], <<i, j>>), At(out_ozo.val[1], <<i, j>>)),
                     At(out_oxy.val[1], <<i, j>>)),
                FDiv(1, FSub(1, FMul(Real(At(atm.rho, <<i>>)), At(out_mix.val[4], <<i, j>>)))))

\* C10: for every scenario and kept wavelength Iglb = I0 mu0 Tglb_mix Tgas A,
\* Idir = I0 Tdir_mix Tgas and Idif = Iglb - Idir mu0, with I0 the TOA
\* irradiance times the geometric factor of the scenario, Tgas the product
\* of trn_water, trn_ozone and trn_oxygen at the wavelengths in nm, Tglb_mix,
\* Tdir_mix and the albedo from trn_mixture at the wavelengths in microns
\* with return_albedo = True and the coupling flag of the call, and
\* A = 1 / (1 - rho albedo).
C10_Irradiances ==
    (Made({"radtran"}) /\ ret = Ok) =>
        LET rows == InWindow(call)
            nm == out[4]
            um == Vector("array", [j \in 1..Cardinality(rows) |-> nm.data[<<j>>] \div 1000])
        IN  \A t \in {<<trn_mixture(atm, um, geo.mu0, "True", call.coupling),
                        trn_water(atm, nm, geo.mu0), trn_ozone(atm, nm, geo.mu0),
                        trn_oxygen(atm, nm, geo.mu0)>>} :
              \A i \in 1..ngeo(geo), j \in 1..Cardinality(rows) :
                <<out[1].data[<<i, j>>], out[2].data[<<i, j>>], out[3].data[<<i, j>>]>>
                  = IrradiancesOf(t[1], t[2], t[3], t[4], i, j, call.toa[Nth(rows, j)])

\* the irradiances of two scenarios at a wavelength the gases absorb, with
\* the direct irradiance below the global one
C10_Witness ==
    /\ Made({"radtran"}) /\ ret = Ok
    /\ ngeo(geo) = 2 /\ nscen(atm) = 2
    /\ out[4].shape[1] >= 2
    /\ out[1].data[<<2, 2>>] # out[2].data[<<2, 2>>]
    /\ out[3].data[<<2, 2>>] # 0

(***************************************************************************)
(* The boolean options.  The calls of the engine and of radtran above,     *)
(* and geometric_factor with its squeeze flag.                             *)
(***************************************************************************)
GeometricFactorCall(c) ==
    \E squeeze \in Flags : c = [op |-> "geometric_factor", squeeze |-> squeeze]

GeometricFactor ==
    /\ call.op = "geometric_factor" /\ ret = Pending
    /\ LET r == geometric_factor(geo, call.squeeze)
       IN  Returns(IF r.st = "ok" THEN Return(<<r.val>>) ELSE r)

InitFlags ==
    /\ proc = NoProcess
    /\ abscoef = Loaded
    /\ ret = Pending
    /\ out = NoValue
    /\ \/ EngineCall(call) /\ geo = NoGeometry /\ atm \in EngineAtmospheres
       \/ /\ PipelineCall(call) /\ call.op = "radtran"
          /\ geo \in PipelineGeometries /\ atm \in EngineAtmospheres
       \/ GeometricFactorCall(call) /\ geo \in PipelineGeometries /\ atm = NoAtmosphere

\* every operation that takes a boolean option
SpecFlags == InitFlags /\ [][NextEngine \/ Radtran \/ GeometricFactor]_vars

TypeError(r) == r.st = "TypeError"

\* the wavelengths and mu0 of a call on an Atmosphere are valid
ArraysValid(c) ==
    /\ Len(c.wvln.shape) <= 1
    /\ c.op \in TrnOps => Len(c.mu0.shape) <= 1 /\ LengthOf(c.mu0) \in {1, nscen(atm)}

\* a flag of the call made is no boolean
FlagNotBoolean ==
    \/ Made({"geometric_factor"}) /\ ~IsBool(call.squeeze)
    \/ /\ Made(MicronOps) /\ ArraysValid(call)
       /\ \/ ~IsBool(call.return_albedo)
          \/ call.op \in {"trn_aerosols", "trn_mixture"} /\ ~IsBool(call.coupling)
    \/ /\ Made({"radtran"})
       /\ call.wvln_th.kind = "list" /\ call.wvln_th.shape = <<2>>
       /\ ngeo(geo) = nscen(atm)
       /\ ~IsBool(call.coupling)

\* C14: squeeze of geometric_factor, return_albedo of tau_rayleigh,
\* tau_aerosols, trn_rayleigh, trn_aerosols and trn_mixture, and coupling of
\* trn_aerosols, trn_mixture and radtran: a value that is no boolean is
\* rejected with a type error and nothing is returned, whatever the other
\* flag is.
C14_FlagTypeError ==
    FlagNotBoolean => TypeError(ret) /\ out = NoValue

\* C14 but for radtran on a Geometry of one scenario
C14_ButOneGeometry ==
    (call.op = "radtran" /\ ngeo(geo) = 1) \/ C14_FlagTypeError

(***************************************************************************)
(* Records from files.  A table is what the text file holds: rows of       *)
(* numbers, every row of the same length.                                  *)
(***************************************************************************)
\* np.loadtxt: the table with its axes of length 1 removed; an empty file
\* gives an empty 1-dimensional array
np_loadtxt(table) ==
    IF table.shape[1] = 0 THEN Vector("array", <<>>) ELSE np_squeeze(table)

np_atleast_2d(x) ==
    IF Len(x.shape) = 0
    THEN [kind |-> "array", shape |-> <<1, 1>>,
          data |-> Stored([i \in Indices(<<1, 1>>) |-> x.data[<<>>]])]
    ELSE IF Len(x.shape) = 1
    THEN [kind |-> "array", shape |-> <<1, x.shape[1]>>,
          data |-> Stored([i \in Indices(<<1, x.shape[1]>>) |-> x.data[<<i[2]>>]])]
    ELSE x

\* data.ravel(): the elements in row-major order, as numbers
Ravel(data) ==
    [n \in 1..(data.shape[1] * data.shape[2]) |->
        Scalar(data.data[<<((n - 1) \div data.shape[2]) + 1, ((n - 1) % data.shape[2]) + 1>>])]

\* data.T: the columns, as arrays
Transposed(data) ==
    [j \in 1..data.shape[2] |-> Vector("array", [i \in 1..data.shape[1] |-> data.data[<<i, j>>]])]

\* Atmosphere(*args), with None for w0 and g when six arguments are given
Atmosphere_args(args) ==
    Atmosphere_new(args[1], args[2], args[3], args[4], args[5], args[6],
                   IF Len(args) >= 7 THEN args[7] ELSE None,
                   IF Len(args) >= 8 THEN args[8] ELSE None)

InvalidFormat == Raise("ValueError", "invalid file format")

Atmosphere_from_file(table) ==
    IF np_atleast_2d(np_loadtxt(table)).shape \in {<<3, 2>>, <<4, 2>>}
    THEN Atmosphere_args(Ravel(np_atleast_2d(np_loadtxt(table))))
    ELSE IF np_atleast_2d(np_loadtxt(table)).shape[2] \in {6, 8}
    THEN Atmosphere_args(Transposed(np_atleast_2d(np_loadtxt(table))))
    ELSE InvalidFormat

\* the fields in the order of the arguments of the constructor
AtmOrder == <<"p", "rho", "o3", "h2o", "alpha", "beta", "w0", "g">>

\* the shapes of the tables: up to MaxScen + 2 rows of 1 to 9 numbers, single
\* columns of up to 9 numbers, and the empty file
TableShapes ==
    {<<r, c>> : r \in 1..(MaxScen + 2), c \in 1..9}
        \cup {<<r, 1>> : r \in 1..9} \cup {<<0, 0>>}

\* the table of a shape: sample scenarios where the shape has a meaning,
\* the number 0.2 elsewhere
TableOf(shape) ==
    [kind |-> "array", shape |-> shape,
     data |-> [i \in Indices(shape) |->
                 IF shape[2] \in {6, 8} THEN AtmScen(i[1])[AtmOrder[i[2]]]
                 ELSE IF shape \in {<<3, 2>>, <<4, 2>>}
                 THEN AtmRef[AtmOrder[2 * (i[1] - 1) + i[2]]]
                 ELSE IF shape \in {<<6, 1>>, <<8, 1>>} THEN AtmRef[AtmOrder[i[1]]]
                 ELSE AtmRef.rho]]

\* the table with its first number replaced by -0.001
Spoilt(table) ==
    [table EXCEPT !.data = [i \in DOMAIN table.data |->
                              IF \A j \in 1..Len(i) : i[j] = 1 THEN 0 - 1 ELSE table.data[i]]]

FromFileCall(c) ==
    \E shape \in TableShapes :
        \/ c = [op |-> "from_file", table |-> TableOf(shape)]
        \/ c = [op |-> "from_file", table |-> Spoilt(TableOf(shape))]

FromFile ==
    /\ call.op = "from_file" /\ ret = Pending
    /\ LET r == Atmosphere_from_file(call.table)
       IN  /\ atm' = IF r.st = "ok" THEN r ELSE atm
           /\ ret' = Raise(r.st, r.msg)
    /\ UNCHANGED <<call, geo, out, proc, abscoef>>

InitTables == FromFileCall(call) /\ NoCall

\* Atmosphere records from files
SpecTables == InitTables /\ [][FromFile]_vars

FormatError(r) == r.st = "ValueError" /\ r.msg = "invalid file format"

\* the numbers of a table are in the domains of the fields they stand for
TableInDomain(t) == \A i \in DOMAIN t.data : t.data[i] >= 0

\* C17: Atmosphere.from_file reads a table of 3 or 4 rows and 2 columns in
\* row-major order as the 6 or 8 fields of one scenario, a table of n rows
\* and 6 or 8 columns as n scenarios with one field per column, and fails
\* with the format error, without an Atmosphere, on a table of any other
\* shape.
C17_FileLayouts ==
    Made({"from_file"}) =>
        LET t == call.table
            single == t.shape \in {<<3, 2>>, <<4, 2>>}
            rows == t.shape[1] >= 1 /\ t.shape[2] \in {6, 8}
        IN  /\ (single /\ TableInDomain(t)) =>
                  /\ ret = Ok
                  /\ nscen(atm) = 1
                  /\ \A n \in 1..(2 * t.shape[1]) :
                       atm[AtmOrder[n]].data[<<1>>]
                           = t.data[<<((n - 1) \div 2) + 1, ((n - 1) % 2) + 1>>]
            /\ (rows /\ TableInDomain(t)) =>
                  /\ ret = Ok
                  /\ nscen(atm) = t.shape[1]
                  /\ \A i \in 1..t.shape[1], j \in 1..t.shape[2] :
                       atm[AtmOrder[j]].data[<<i>>] = t.data[<<i, j>>]
            /\ (~single /\ ~rows) => FormatError(ret) /\ atm = NoAtmosphere

\* C17 but for the tables of one column of 6 or 8 numbers
C17_ButOneColumn ==
    (call.op = "from_file" /\ call.table.shape \in {<<6, 1>>, <<8, 1>>}) \/ C17_FileLayouts

(***************************************************************************)
(* The command (_main of radtran.py).  argv is what getopt returns: the    *)
(* pairs <<option, value>> in the order given.  files maps the paths of    *)
(* the command line to the tables they hold; toa is what dat/none.dat      *)
(* holds, when there is such a file.                                       *)
(***************************************************************************)
\* Geometry.from_file: a table of n rows of lat, lon, sza and day in degrees
Geometry_from_file(table) ==
    IF np_atleast_2d(np_loadtxt(table)).shape[2] = 4
    THEN Geometry_new(Transposed(np_atleast_2d(np_loadtxt(table)))[1],
                      Transposed(np_atleast_2d(np_loadtxt(table)))[2],
                      Transposed(np_atleast_2d(np_loadtxt(table)))[3],
                      Transposed(np_atleast_2d(np_loadtxt(table)))[4], "deg")
    ELSE InvalidFormat

\* [x[1] for x in optlist if x[0] == name]
Options(optlist, name) ==
    LET found == SelectSeq(optlist, LAMBDA x : x[1] = name)
    IN  [i \in 1..Len(found) |-> found[i][2]]

NoCode == 0 - 1

Started ==
    [pc |-> "geo", code |-> NoCode, error |-> "", names |-> <<>>, written |-> {},
     solver |-> <<>>]

\* sys.exit(code) after the message
Exit(p, code, msg) == [p EXCEPT !.pc = "exit", !.code = code, !.error = msg]

\* a slip: the first of several values taken
Missing_OrFirst(values, name) ==
    IF Len(values) = 0 THEN "Error: missing " \o name \o " option" ELSE ""

\* the message for an option that is not given exactly once, "" when it is
Missing(values, name) ==
    IF Len(values) = 0 THEN "Error: missing " \o name \o " option"
    ELSE IF Len(values) # 1 THEN "Error: multiple " \o name \o " options"
    ELSE ""

ParseGeo ==
    /\ call.op = "main" /\ proc.pc = "geo"
    /\ LET values == Options(call.argv, "--geo")
           r == Geometry_from_file(call.files[values[1]])
       IN  IF Missing(values, "--geo") # ""
           THEN proc' = Exit(proc, 1, Missing(values, "--geo")) /\ geo' = geo
           ELSE IF r.st # "ok"
           THEN proc' = Exit(proc, 1, "Error: wrong Geometry input file") /\ geo' = geo
           ELSE proc' = [proc EXCEPT !.pc = "atm"] /\ geo' = r
    /\ UNCHANGED <<call, atm, ret, out, abscoef>>

ParseAtm ==
    /\ call.op = "main" /\ proc.pc = "atm"
    /\ LET values == Options(call.argv, "--atm")
           r == Atmosphere_from_file(call.files[values[1]])
       IN  IF Missing(values, "--atm") # ""
           THEN proc' = Exit(proc, 2, Missing(values, "--atm")) /\ atm' = atm
           ELSE IF r.st # "ok"
           THEN proc' = Exit(proc, 2, "Error: wrong Atmosphere input file") /\ atm' = atm
           ELSE proc' = [proc EXCEPT !.pc = "run"] /\ atm' = r
    /\ UNCHANGED <<call, geo, ret, out, abscoef>>

\* os.path.splitext of the paths of the model
Splitext(path) == IF path = "out.txt" THEN <<"out", ".txt">> ELSE <<path, "">>

\* the names of the three tables
OutputNames(path) ==
    <<Splitext(path)[1] \o "_glb" \o Splitext(path)[2],
      Splitext(path)[1] \o "_dir" \o Splitext(path)[2],
      Splitext(path)[1] \o "_dif" \o Splitext(path)[2]>>

\* not bool(coupling), as the flag and as the number numpy sees
NotGiven(values) == IF Len(values) = 0 THEN "True" ELSE "False"

\* radtran(geo, atm, None, coupling): the file is dat/none.dat, the window
\* is the flag and coupling keeps its default
Solver(toa, coupling) ==
    IF toa = <<>> THEN Raise("OSError", "none.dat not found")
    ELSE radtran(geo, atm, toa, Scalar(IF coupling = "True" THEN 1 ELSE 0), "True")

\* the --out option, the solver and the three tables
RunSolver ==
    /\ call.op = "main" /\ proc.pc = "run"
    /\ LET values == Options(call.argv, "--out")
           coupling == NotGiven(Options(call.argv, "--no-coupling"))
           r == Solver(call.toa, coupling)
           names == OutputNames(values[1])
       IN  IF Missing(values, "--out") # ""
           THEN proc' = Exit(proc, 3, Missing(values, "--out"))
           ELSE IF r.st # "ok"
           THEN proc' = [Exit(proc, 1, r.st) EXCEPT
                            !.names = names,
                            !.solver = <<"None", coupling, "True">>]
           ELSE proc' = [Exit(proc, 0, "") EXCEPT
                            !.names = names,
                            !.solver = <<"None", coupling, "True">>,
                            !.written = {names[1], names[2], names[3]}]
    /\ UNCHANGED <<call, geo, atm, ret, out, abscoef>>

\* n times the option
Repeated(n, option) == [i \in 1..n |-> option]

GeoTable(n) ==
    [kind |-> "array", shape |-> <<n, 4>>,
     data |-> [i \in Indices(<<n, 4>>) |-> GeoScen(i[1])[<<"lat", "lon", "sza", "day">>[i[2]]]]]

CommandCall(c) ==
    \E ng \in 0..2, na \in 0..2, no \in 0..2, nc \in 0..1 :
    \E geo_file \in {GeoTable(n) : n \in 1..MaxScen} \cup {TableOf(<<2, 3>>)} :
    \E atm_file \in {TableOf(<<n, 6>>) : n \in 1..MaxScen}
                        \cup {TableOf(<<3, 2>>), TableOf(<<2, 5>>)} :
    \E toa \in {<<>>, Spectrum(1..MaxWvln)} :
        c = [op |-> "main",
             argv |-> Repeated(ng, <<"--geo", "geo.dat">>)
                        \o Repeated(na, <<"--atm", "atm.dat">>)
                        \o Repeated(nc, <<"--no-coupling", "">>)
                        \o Repeated(no, <<"--out", "out.txt">>),
             files |-> [f \in {"geo.dat", "atm.dat"} |->
                          IF f = "geo.dat" THEN geo_file ELSE atm_file],
             toa |-> toa]

InitCommand ==
    /\ CommandCall(call)
    /\ proc = Started
    /\ abscoef = Loaded
    /\ geo = NoGeometry
    /\ atm = NoAtmosphere
    /\ ret = Pending
    /\ out = NoValue

NextCommand == ParseGeo \/ ParseAtm \/ RunSolver

\* the command
SpecCommand == InitCommand /\ [][NextCommand]_vars

\* the command is reading one of its two input files
Parsing == call.op = "main" /\ proc.pc \in {"geo", "atm"}

\* the command, which runs until it exits: the interpreter executes _main
\* statement after statement, so no step that can be taken waits for ever.
\* A parsing step is enabled exactly while Parsing holds and always moves
\* proc.pc, so weak fairness of the parsing steps is written out with
\* Parsing in the place of ENABLED <<ParseGeo \/ ParseAtm>>_vars.
SpecCommandRuns ==
    /\ SpecCommand
    /\ WF_vars(RunSolver)
    /\ ([]<>(~Parsing) \/ []<><<ParseGeo \/ ParseAtm>>_vars)

(***************************************************************************)
(* What the claims about the command speak of.                             *)
(***************************************************************************)
Given1(name) == Len(Options(call.argv, name)) = 1

\* --geo is missing, given more than once, or its file does not parse
GeoFaulty == ~Given1("--geo") \/ Geometry_from_file(call.files["geo.dat"]).st # "ok"

AtmFaulty == ~Given1("--atm") \/ Atmosphere_from_file(call.files["atm.dat"]).st # "ok"

OutFaulty == ~Given1("--out")

Exited == call.op = "main" /\ proc.pc = "exit"

\* C15: the exit code names the faulty input: 1 when --geo is missing,
\* given more than once or its file does not parse, 2 when the same holds
\* for --atm (and --geo is sound), 3 when --out is missing or given more
\* than once (and both files are sound); the three codes differ and none
\* is zero.
C15_ExitCodes ==
    Exited =>
        /\ GeoFaulty => proc.code = 1
        /\ (~GeoFaulty /\ AtmFaulty) => proc.code = 2
        /\ (~GeoFaulty /\ ~AtmFaulty /\ OutFaulty) => proc.code = 3
        /\ (GeoFaulty \/ AtmFaulty \/ OutFaulty) => proc.code # 0 /\ proc.written = {}

\* the command has exited with 2 because --atm was given twice, after
\* reading a sound Geometry
C15_Witness ==
    /\ Exited
    /\ ~GeoFaulty
    /\ Len(Options(call.argv, "--atm")) = 2
    /\ proc.code = 2
    /\ geo # NoGeometry

\* the command was started with --geo, --atm and --out once each and two
\* files of valid records
SoundCommand ==
    call.op = "main" /\ proc.pc = "geo" /\ ~GeoFaulty /\ ~AtmFaulty /\ ~OutFaulty

\* the solver was run on the records of the files, with coupling unless
\* --no-coupling was given, the three tables are written and the exit code
\* is zero
Succeeded ==
    /\ Exited
    /\ proc.code = 0
    /\ geo = Geometry_from_file(call.files["geo.dat"])
    /\ atm = Atmosphere_from_file(call.files["atm.dat"])
    /\ proc.solver # <<>>
    /\ proc.solver[3] = NotGiven(Options(call.argv, "--no-coupling"))
    /\ proc.written = {"out_glb.txt", "out_dir.txt", "out_dif.txt"}

\* C16: a command given --geo, --atm and --out once each, with files of
\* valid records, eventually runs the solver on the two records, with
\* coupling unless --no-coupling was given, writes the three tables _glb,
\* _dir and _dif and exits with success.
C16_CommandSucceeds == SoundCommand ~> Succeeded

\* the command does exit
C16_Exits == SoundCommand ~> Exited

(***************************************************************************)
(* Calls one after another on the same records.  The engine holds no      *)
(* assignment to a field of a record or to an element of one of its       *)
(* arrays, and the only statement about ABSCOEF after it is loaded is the *)
(* one that makes it read-only; abscoef is the one module-level array     *)
(* that the abscoef property of every Atmosphere returns.                 *)
(***************************************************************************)
\* how many calls are made one after another
MaxCalls == 3

\* Atmosphere.abscoef: the module-level table, whatever the instance
Atmosphere_abscoef(self) == abscoef.table

\* a slip: the table left writeable
SetItem_Writeable(a, row, col, value) ==
    [st |-> "ok", msg |-> "", array |-> [a EXCEPT !.table[row][col] = value]]

\* a[row, col] = value on a numpy array: refused when a is read-only
SetItem(a, row, col, value) ==
    IF a.writeable
    THEN [st |-> "ok", msg |-> "", array |-> [a EXCEPT !.table[row][col] = value]]
    ELSE [st |-> "ValueError", msg |-> "assignment destination is read-only",
          array |-> a]

\* atm.abscoef[row, col] = value
AbscoefWrite ==
    /\ call.op = "setitem" /\ ret = Pending
    /\ \E r \in {SetItem(abscoef, call.row, call.col, call.value)} :
          ret' = Raise(r.st, r.msg) /\ abscoef' = r.array
    /\ out' = NoValue
    /\ UNCHANGED <<call, geo, atm, proc>>

\* the n-th call of a caller that holds geo and atm
FrameCall(c, n) ==
    \/ \E op \in MicronOps \cup GasOps, flag \in {"True", "False"} :
          c = [op |-> op,
               wvln |-> Vector("array", [j \in 1..MaxWvln |->
                            IF op \in GasOps THEN WvlnNm(j) ELSE WvlnUm(j)]),
               mu0 |-> IF op \in {"tau_rayleigh", "tau_aerosols"} THEN None
                       ELSE Scalar(Mu0Of(1)),
               return_albedo |-> IF op \in GasOps THEN "False" ELSE flag,
               coupling |-> IF op \in {"trn_aerosols", "trn_mixture"} THEN flag
                            ELSE "False",
               seq |-> n]
    \/ \E flag \in {"True", "False"} :
          c = [op |-> "radtran", toa |-> Spectrum(1..(MaxWvln + 1)),
               wvln_th |-> Vector("list", <<WvlnNm(1), WvlnNm(MaxWvln + 1)>>),
               coupling |-> flag, seq |-> n]
    \/ \E flag \in {"True", "False"} :
          c = [op |-> "geometric_factor", squeeze |-> flag, seq |-> n]
    \/ \E row \in {"wvln", "water_coef"}, col \in {1, Len(ABSCOEF.wvln)} :
          c = [op |-> "setitem", row |-> row, col |-> col, value |-> 1000, seq |-> n]

\* the caller goes on to its next call
NextCall ==
    /\ ret # Pending /\ call.seq < MaxCalls
    /\ FrameCall(call', call.seq + 1)
    /\ ret' = Pending
    /\ out' = NoValue
    /\ UNCHANGED <<geo, atm, proc, abscoef>>

InitFrame ==
    /\ FrameCall(call, 1)
    /\ proc = NoProcess
    /\ abscoef = Loaded
    /\ geo \in PipelineGeometries
    /\ atm \in EngineAtmospheres
    /\ ret = Pending
    /\ out = NoValue

NextFrame == NextEngine \/ Radtran \/ GeometricFactor \/ AbscoefWrite \/ NextCall

\* up to MaxCalls calls on the same Geometry, Atmosphere and table
SpecFrame == InitFrame /\ [][NextFrame]_vars

(***************************************************************************)
(* What the claim about the calls one after another speaks of.            *)
(***************************************************************************)
\* C18: no call of the engine, and no attempt to write to the table,
\* changes a field of the Geometry or of the Atmosphere passed in or an
\* entry of the absorption table; the table is the one loaded at the start,
\* the abscoef property of every Atmosphere gives that same table, and a
\* write to one of its elements ends in an error.
C18_Frame ==
    /\ abscoef = Loaded
    /\ \A a \in EngineAtmospheres \cup {atm} : Atmosphere_abscoef(a) = ABSCOEF
    /\ [][/\ geo' = geo
          /\ atm' = atm
          /\ abscoef' = abscoef
          /\ (call.op = "setitem" /\ ret = Pending) => ret'.st = "ValueError"]_vars

\* the last call of the sequence was a write to the table, refused, after
\* calls on records of several scenarios, and the table is as loaded
C18_Witness ==
    /\ call.op = "setitem" /\ call.seq = MaxCalls
    /\ ret.st = "ValueError"
    /\ ngeo(geo) > 1 /\ nscen(atm) > 1
    /\ Atmosphere_abscoef(atm) = ABSCOEF

\* the last call of the sequence was an operation of the engine that
\* returned, on records of several scenarios
C18_EngineReturned ==
    /\ call.op = "trn_mixture" /\ call.seq = MaxCalls
    /\ ret.st = "ok"
    /\ nscen(atm) > 1

(***************************************************************************)
(* What the claims about the scenarios and the days of a record speak of.  *)
(***************************************************************************)
\* every argument of the call that is given has no element
EmptyArguments ==
    \A f \in DOMAIN call \ {"op", "mode"} : IsNone(call[f]) \/ call[f].shape = <<0>>

\* C19: every Geometry and every Atmosphere that construction returns
\* holds at least one scenario (ngeo >= 1, nscen >= 1): a construction from
\* sequences of length 0 leaves no record.
C19_AtLeastOneScenario ==
    /\ geo # NoGeometry => ngeo(geo) >= 1
    /\ atm # NoAtmosphere => nscen(atm) >= 1

\* C19 but for the constructions from arguments without elements
C19_ButEmpty == EmptyArguments \/ C19_AtLeastOneScenario

\* the day v, in thousandths, is a whole number of days from 1 to 366
WholeDay(v) == v % 1000 = 0 /\ 1000 <= v /\ v <= 366000

\* C20: the day of every scenario of every constructed Geometry is a whole
\* number from 1 to 366: a day such as 1.5 is not stored.
C20_DayIsWhole ==
    geo # NoGeometry => \A i \in DOMAIN geo.day.data : WholeDay(geo.day.data[i])

\* C20 for the range alone
C20_DayInRange ==
    geo # NoGeometry =>
        \A i \in DOMAIN geo.day.data : 1000 <= geo.day.data[i] /\ geo.day.data[i] <= 366000

(***************************************************************************)
(* geometric_factor on Geometry records of the days 1, 4, 152, 186 and     *)
(* 366: the first and the last day of the range, the days next to the      *)
(* largest and to the smallest factor, and the day of the example.         *)
(***************************************************************************)
FactorDays == {1000, 4000, 152000, 186000, 366000}

\* the Geometry records of up to MaxScen + 1 scenarios with these days
FactorGeometries ==
    {ConstructGeometry(GeometryCall(Scalar(GeoScen(1).lat), Scalar(GeoScen(1).lon),
                                    Scalar(GeoScen(1).sza), Scalar(d), "deg")) :
        d \in FactorDays}
    \cup UNION {{ConstructGeometry(
                    GeoVectors([j \in 1..n |-> [GeoScen(j) EXCEPT !.day = days[j]]],
                               [f \in GeoFields |-> "array"], "deg")) :
                    days \in [1..n -> FactorDays]} : n \in 1..(MaxScen + 1)}

InitFactor ==
    /\ GeometricFactorCall(call)
    /\ proc = NoProcess
    /\ abscoef = Loaded
    /\ geo \in FactorGeometries
    /\ atm = NoAtmosphere
    /\ ret = Pending
    /\ out = NoValue

\* the Earth-Sun factor of a Geometry
SpecFactor == InitFactor /\ [][GeometricFactor]_vars

(***************************************************************************)
(* What the claim about the factor speaks of.                              *)
(***************************************************************************)
\* the day of scenario j
DayOf(self, j) == IF self.day.shape = <<>> THEN self.day.data[<<>>] ELSE self.day.data[<<j>>]

\* the element of the factor x that belongs to scenario j
FactorOf(x, j) ==
    IF x.shape = <<>> THEN x.data[<<>>]
    ELSE IF Len(x.shape) = 1 THEN x.data[<<j>>]
    ELSE x.data[<<1, j, 1>>]

\* theta = 2 pi (day - 1) / 365 to the nearest unit of pi / 360000
Theta(day) == (((2 * Pi) \div 1000) * (day - 1000) + 182) \div 365

\* 1.00011 + 0.03422 cos(theta) + 0.00128 sin(theta) + 0.000719 cos(2 theta)
\* + 0.000077 sin(2 theta), in millionths
Series(theta) ==
    1000110 + (34220 * Cos(theta) + 1280 * Sin(theta)
                + 719 * Cos(2 * theta) + 77 * Sin(2 * theta)) \div 1000

\* geometric_factor has returned, and for every scenario the series of its
\* day, which is no less than lo and no more than hi millionths
FactorWithin(lo, hi) ==
    (call.op = "geometric_factor" /\ ret.st = "ok") =>
        \A j \in 1..ngeo(geo) :
            /\ FactorOf(out[1], j) = Series(Theta(DayOf(geo, j)))
            /\ lo <= FactorOf(out[1], j)
            /\ FactorOf(out[1], j) <= hi

\* C21: for every day from 1 to 366 geometric_factor returns 1.00011
\* + 0.03422 cos(theta) + 0.00128 sin(theta) + 0.000719 cos(2 theta)
\* + 0.000077 sin(2 theta) with theta = 2 pi (day - 1) / 365, and the
\* value lies within [0.9661, 1.0343].
C21_FactorSeries == FactorWithin(966100, 1034300)

\* C21 with the upper limit the series does keep: the value lies within
\* [0.9661, 1.0351]
C21_FactorSeriesTo10351 == FactorWithin(966100, 1035100)

\* the factor was returned for a Geometry of several scenarios, with the
\* first day of the year, where it is 1.035049, and a day of July
C21_Witness ==
    /\ call.op = "geometric_factor" /\ ret.st = "ok"
    /\ ngeo(geo) > 1
    /\ DayOf(geo, 1) = 1000 /\ FactorOf(out[1], 1) = 1035049
    /\ DayOf(geo, 2) = 186000 /\ FactorOf(out[1], 2) < 1000000

(***************************************************************************)
(* What the claims about the failures of radtran speak of.                 *)
(***************************************************************************)
\* the window has fewer than two limits
TooFewLimits(c) == LengthOf(c.wvln_th) < 2

\* the window has its lower limit above its upper limit
Inverted(c) == ~TooFewLimits(c) /\ c.wvln_th.data[<<1>>] > c.wvln_th.data[<<2>>]

\* the Geometry and the Atmosphere hold different numbers of scenarios, both
\* more than one
CountsDiffer == ngeo(geo) > 1 /\ nscen(atm) > 1 /\ ngeo(geo) # nscen(atm)

\* C22: radtran given a window of fewer than two limits, or one whose lower
\* limit is above the upper one, or a Geometry and an Atmosphere whose
\* scenario counts differ and are both more than 1, ends in an error and
\* returns no irradiance.
C22_MalformedFails ==
    (Made({"radtran"}) /\ (TooFewLimits(call) \/ Inverted(call) \/ CountsDiffer))
        => ret # Ok /\ out = NoValue

\* C22 but for the windows with the lower limit above the upper one
C22_ButInverted ==
    (Made({"radtran"}) /\ Inverted(call) /\ ~CountsDiffer) \/ C22_MalformedFails

(***************************************************************************)
(* The scattering transmittances on the Atmosphere records at the limits   *)
(* of the fields: no air (p = 0), no aerosols (beta = 0) and aerosols that *)
(* do not absorb (w0 = 1), next to the values of the example.              *)
(***************************************************************************)
LimitScenarios ==
    {[AtmRef EXCEPT !.p = p, !.beta = beta, !.w0 = w0] :
        p \in {0, AtmRef.p}, beta \in {0, AtmRef.beta}, w0 \in {1000, AtmRef.w0}}

\* the Atmosphere records of up to MaxScen of these scenarios
LimitAtmospheres ==
    UNION {{Construct(AtmVectors(ss, "array")) : ss \in [1..n -> LimitScenarios]} :
              n \in 1..MaxScen}

LimitCall(c) ==
    \E op \in {"trn_rayleigh", "trn_aerosols", "trn_mixture"} :
    \E return_albedo \in {"True", "False"} :
    \E coupling \in IF op = "trn_rayleigh" THEN {"False"} ELSE {"True", "False"} :
        c = [op |-> op,
             wvln |-> Vector("array", [j \in 1..MaxWvln |-> WvlnUm(j)]),
             mu0 |-> Scalar(Mu0Of(1)),
             return_albedo |-> return_albedo, coupling |-> coupling]

InitLimits ==
    /\ LimitCall(call)
    /\ proc = NoProcess
    /\ abscoef = Loaded
    /\ geo = NoGeometry
    /\ atm \in LimitAtmospheres
    /\ ret = Pending
    /\ out = NoValue

\* the scattering transmittances at the limits of the fields
SpecLimits == InitLimits /\ [][TrnRayleigh \/ TrnAerosols \/ TrnMixture]_vars

(***************************************************************************)
(* What the claims about the limits speak of.                              *)
(***************************************************************************)
\* field x is v in every scenario
Everywhere(x, v) == \A i \in DOMAIN x.data : x.data[i] = v

\* field x is v in no scenario
Nowhere(x, v) == \A i \in DOMAIN x.data : x.data[i] # v

\* C23: the coupled mixture transmittance (trn_mixture with coupling) is,
\* at the end beta = 0 of the limit of no aerosols, the Rayleigh
\* transmittance of trn_rayleigh, and at the end p = 0 of the limit of no
\* air the aerosol transmittance of trn_aerosols without coupling, for the
\* same wavelengths and mu0.
C23_Limits ==
    (Made({"trn_mixture"}) /\ call.coupling = "True") =>
        \A t \in {<<trn_rayleigh(atm, call.wvln, call.mu0, "False"),
                    trn_aerosols(atm, call.wvln, call.mu0, "False", "False")>>} :
            /\ (Everywhere(atm.beta, 0) /\ Nowhere(atm.p, 0))
                  => ret = Ok /\ SubSeq(out, 1, 3) = SubSeq(t[1].val, 1, 3)
            /\ (Everywhere(atm.p, 0) /\ Nowhere(atm.beta, 0))
                  => ret = Ok /\ SubSeq(out, 1, 3) = SubSeq(t[2].val, 1, 3)

\* C23 at the end p = 0 alone
C23_NoAir ==
    (Made({"trn_mixture"}) /\ call.coupling = "True"
        /\ Everywhere(atm.p, 0) /\ Nowhere(atm.beta, 0)) =>
        \A t \in {trn_aerosols(atm, call.wvln, call.mu0, "False", "False")} :
            ret = Ok /\ SubSeq(out, 1, 3) = SubSeq(t.val, 1, 3)

(***************************************************************************)
(* What the claim about the factor inside radtran speaks of.               *)
(***************************************************************************)
\* C24: radtran scales the TOA irradiance with the factor that
\* geometric_factor gives with squeeze = False, which keeps its axis of
\* scenarios for a Geometry of one scenario too: a call with a window of
\* two limits, a boolean flag and as many scenarios in the Geometry as in
\* the Atmosphere returns irradiances with one row for every element of
\* that axis.
C24_FactorKeepsScenarios ==
    (Made({"radtran"}) /\ RadtranArgumentsValid(call) /\ ngeo(geo) = nscen(atm)) =>
        \A f \in {geometric_factor(geo, "False").val} :
            /\ f.shape = <<1, ngeo(geo), 1>>
            /\ ret = Ok
            /\ \A x \in 1..3 : out[x].shape[1] = f.shape[2]

\* C24 for the Geometry records of two scenarios or more
C24_TwoOrMore == ngeo(geo) >= 2 => C24_FactorKeepsScenarios

(***************************************************************************)
(* What the claims about the results of the scattering transmittances      *)
(* speak of.                                                               *)
(***************************************************************************)
\* C25: trn_mixture with coupling returns the global, direct and diffuse
\* transmittances, and with return_albedo the albedo, that trn_aerosols
\* returns with coupling for the same wavelengths, mu0 and return_albedo,
\* and nothing else; in them the optical depth is tau_ray + tau_aer, the
\* asymmetry is tau_aer g / (tau_ray + tau_aer), the single-scattering
\* albedo is (tau_ray + w0 tau_aer) / (tau_ray + tau_aer) and the albedo is
\* the sum of the Rayleigh and of the aerosol contributions.
C25_CoupledMixture ==
    (Made({"trn_mixture"}) /\ call.coupling = "True" /\ ret = Ok) =>
        \A t \in {<<trn_aerosols(atm, call.wvln, call.mu0, call.return_albedo, "True").val,
                    tau_rayleigh(atm, call.wvln, "True").val,
                    tau_aerosols(atm, call.wvln, "True").val,
                    np_atleast_1d(call.mu0)>>} :
            /\ SubSeq(out, 1, 3) = SubSeq(t[1], 1, 3)
            /\ call.return_albedo = "True" =>
                  Len(out) = 4 /\ out[4] = t[1][4] /\ out[4] = Add(t[2][2], t[3][2])
            /\ call.return_albedo = "False" => Len(out) = 3
            /\ \A i \in 1..out[1].shape[1], j \in 1..out[1].shape[2] :
                 \A tau_ray \in {At(t[2][1], <<i, j>>)}, tau_aer \in {At(t[3][1], <<i, j>>)} :
                    /\ out[2].data[<<i, j>>] =
                          Direct(FAdd(tau_ray, tau_aer), Real(At(t[4], <<i>>)))
                    /\ out[1].data[<<i, j>>] =
                          AerosolGlobal(out[2].data[<<i, j>>],
                                        FDiv(FAdd(tau_ray, FMul(Real(At(atm.w0, <<i>>)), tau_aer)),
                                             FAdd(tau_ray, tau_aer)),
                                        FDiv(FMul(tau_aer, Real(At(atm.g, <<i>>))),
                                             FAdd(tau_ray, tau_aer)))

\* the coupled mixture of two scenarios at two wavelengths, with the
\* albedo and without it
C25_Witness ==
    /\ Made({"trn_mixture"}) /\ call.coupling = "True" /\ ret = Ok
    /\ call.return_albedo = "False"
    /\ Len(out) = 3
    /\ out[1].shape = <<2, 2>>
    /\ IsFinite(out[1].data[<<2, 2>>])
    /\ out[1].data[<<2, 2>>] # out[2].data[<<2, 2>>]

\* C26: trn_aerosols, with coupling and without, returns with return_albedo
\* False the three arrays tglb, tdir and tdif and no fourth element, as
\* trn_rayleigh does, and with return_albedo True four arrays, the fourth
\* being the albedo of shape (nscen, nwvln).
C26_AlbedoOptional ==
    (Made({"trn_aerosols", "trn_rayleigh"}) /\ ret = Ok) =>
        /\ \A x \in 1..3 : out[x].kind = "array"
        /\ call.return_albedo = "False" => Len(out) = 3
        /\ call.return_albedo = "True" =>
              /\ Len(out) = 4
              /\ out[4].kind = "array"
              /\ out[4].shape = <<nscen(atm), out[1].shape[2]>>

\* C26 for the calls with return_albedo True and for trn_rayleigh
C26_ButWithoutAlbedo ==
    (call.op = "trn_aerosols" /\ call.return_albedo = "False") \/ C26_AlbedoOptional

\* C27: for every constructed Atmosphere, p = 0, beta = 0 and w0 = 1
\* included, and mu0 > 0, no division of trn_aerosols or trn_mixture has a
\* zero divisor (tau_ray + tau_aer with coupling, K + 1 - w0 and
\* 1 - (r0 Tdir^K)^2 on both paths): every transmittance returned is a
\* finite number.
C27_NoZeroDivisor ==
    (Made({"trn_aerosols", "trn_mixture"}) /\ ret = Ok) =>
        \A x \in 1..3 : \A i \in DOMAIN out[x].data : IsFinite(out[x].data[i])

\* C27 away from w0 = 1 and, with coupling, from beta = 0
C27_AwayFromLimits ==
    (Nowhere(atm.w0, 1000) /\ (call.coupling = "True" => Nowhere(atm.beta, 0)))
        => C27_NoZeroDivisor

(***************************************************************************)
(* What the claim about the order of the command speaks of.                *)
(***************************************************************************)
\* the exit code of the first faulty input in the order --geo, --atm, --out
FirstFaulty == IF GeoFaulty THEN 1 ELSE IF AtmFaulty THEN 2 ELSE IF OutFaulty THEN 3 ELSE 0

\* C28: the command validates --geo, then --atm, then --out: with several
\* of them faulty the exit code is that of the first faulty one in this
\* order, and on every exit with a code other than zero the solver has not
\* been run and none of the three tables has been written.
C28_ValidationOrder ==
    Exited =>
        /\ FirstFaulty # 0 => proc.code = FirstFaulty
        /\ proc.code # 0 => proc.solver = <<>> /\ proc.written = {}

\* C28 but for the exits after a failure of the solver
C28_ButSolverFailure ==
    (Exited /\ FirstFaulty = 0 /\ proc.solver # <<>>) \/ C28_ValidationOrder

====
